---- MODULE Spec2Model ----
(***************************************************************************)
(* QuantF1: lap-time analytics.  A state-machine model of                  *)
(*   5_Drawdown_and_Recovery/execution_equity.py  (equity engine)          *)
(*   5_Drawdown_and_Recovery/drawdown_metrics.py  (drawdown detector)      *)
(*   1_Sharpe_Ratio/driver_sharpe_ratio.py        (ratio engine benchmark) *)
(*                                                                         *)
(* Numbers are fixed-point: 1 unit = 0.01 s.  Float NaN is the value NaN,  *)
(* which every comparison rejects and every arithmetic operator carries.   *)
(***************************************************************************)
EXTENDS Integers, Sequences, FiniteSets, TLC

VARIABLES
    pc,                 \* position inside the function being executed
    result,             \* what the function returned
    \* calculate_execution_equity
    session,            \* the loaded session: [laps, drivers]
    all_laps,           \* the lap table, a sequence of rows (records)
    lap_nums,           \* lap numbers still to visit in the interval loop
    traffic_threshold,  \* calibrated in-traffic cut-off
    benchmark_laps,     \* clean laps the benchmark is fitted on
    groups,             \* (stint, compound) keys still to fit
    trend_models,       \* key -> model
    avg_pit_loss,       \* median raw delta of green-flag pit laps
    drivers_left,       \* drivers still to aggregate
    equity_curves,      \* per-driver tables collected so far
    \* calculate_drawdown_metrics
    equity_df,          \* the equity table handed to the function
    driver_queue,       \* competitors still to scan
    d_df,               \* the current competitor's rows with Peak and Drawdown
    row_idx,            \* next row of d_df the scan visits
    mdd,                \* the current competitor's maximum drawdown
    in_dd,              \* detector state: In-Drawdown or Normal
    trough_lap,
    trough_equity,
    current_failure_type,
    recovery_velocities,
    recovery_curvatures,
    recovery_types,
    metrics_summary,    \* one summary per competitor scanned so far
    \* calculate_driver_sharpe_ratio
    laps,               \* quick green-flag laps of the ratio engine
    sr_groups,          \* (stint, compound) keys still to fit
    sr_trend_models,    \* key -> model of the ratio engine
    drivers,            \* session.drivers still to analyse
    stint_queue,        \* stints of the current driver still to analyse
    stint_sharpe_ratios,
    stint_sortino_ratios,
    stint_weights,
    stint_mean_deltas,
    stint_std_devs,
    stint_downside_devs,
    driver_analysis,    \* one row per driver analysed so far
    \* run_seasonal_drawdown and ResilienceProfiler.profile_drivers
    season,             \* what each race of the season yields
    race_queue,         \* races of RACE_SCHEDULE still to process
    all_metrics,        \* per-race metrics collected so far
    aggregated_metrics_df,  \* the cohort handed to profile_drivers
    \* config.py
    config              \* the options the modules were imported with

eqState == <<session, all_laps, lap_nums, traffic_threshold, benchmark_laps,
             groups, trend_models, avg_pit_loss, drivers_left, equity_curves>>

rpState == <<season, race_queue, all_metrics, aggregated_metrics_df>>

ddState == <<equity_df, driver_queue, d_df, row_idx, mdd, in_dd, trough_lap,
             trough_equity, current_failure_type, recovery_velocities,
             recovery_curvatures, recovery_types, metrics_summary, rpState>>

srLoop == <<drivers, stint_queue, stint_sharpe_ratios, stint_sortino_ratios,
            stint_weights, stint_mean_deltas, stint_std_devs, stint_downside_devs,
            driver_analysis>>

srState == <<laps, sr_groups, sr_trend_models, srLoop>>

vars == <<pc, result, eqState, ddState, srState, config>>

----------------------------------------------------------------------------
(* Bounds of the model *)

NumLaps == 3

\* the gap tables hold 50 - GapSpread .. 50 + GapSpread valid samples
GapSpread == 3

\* rows of each kind of lap that is not a valid sample
NoiseRows == 4

----------------------------------------------------------------------------
(* Floating point: NaN and the operations that carry it *)

NaN == -999999

None == <<"None">>

IsNaN(x) == x = NaN

Add(a, b) == IF IsNaN(a) \/ IsNaN(b) THEN NaN ELSE a + b

Sub(a, b) == IF IsNaN(a) \/ IsNaN(b) THEN NaN ELSE a - b

Neg(a) == IF IsNaN(a) THEN NaN ELSE 0 - a

Lt(a, b) == ~IsNaN(a) /\ ~IsNaN(b) /\ a < b

Ge(a, b) == ~IsNaN(a) /\ ~IsNaN(b) /\ a >= b

Abs(a) == IF a < 0 THEN 0 - a ELSE a

\* nearest fixed-point value of the rational n/d (d # 0)
Round(n, d) == IF d > 0 THEN (2 * n + d) \div (2 * d)
                        ELSE (2 * (0 - n) + (0 - d)) \div (2 * (0 - d))

----------------------------------------------------------------------------
(* Sequences as pandas uses them *)

RECURSIVE SumSeq(_)
SumSeq(s) == IF s = <<>> THEN 0 ELSE Head(s) + SumSeq(Tail(s))

\* rows of a table that satisfy a mask, in table order
Filter(tbl, Mask(_)) == SelectSeq(tbl, Mask)

\* column of a table
Column(tbl, Get(_)) == [i \in 1..Len(tbl) |-> Get(tbl[i])]

DropNaN(s) == SelectSeq(s, LAMBDA x : ~IsNaN(x))

\* k-th smallest element (1-based) of a sequence of numbers
Kth(s, k) ==
    CHOOSE v \in {s[i] : i \in 1..Len(s)} :
        /\ Cardinality({i \in 1..Len(s) : s[i] < v}) < k
        /\ Cardinality({i \in 1..Len(s) : s[i] <= v}) >= k

\* numpy percentile(s, 50), linear interpolation, s non-empty and NaN-free
Percentile50(s) ==
    LET n == Len(s)
    IN  IF n % 2 = 1 THEN Kth(s, (n + 1) \div 2)
        ELSE LET lo == Kth(s, n \div 2)
                 hi == Kth(s, n \div 2 + 1)
             IN  lo + (hi - lo) \div 2

\* pandas Series.median(): NaN are skipped, the empty series gives NaN
Median(s) == IF DropNaN(s) = <<>> THEN NaN ELSE Percentile50(DropNaN(s))

Clip(x, lo, hi) == IF x < lo THEN lo ELSE IF x > hi THEN hi ELSE x

\* unique values of a sequence in order of first appearance
RECURSIVE Unique(_)
Unique(s) ==
    IF s = <<>> THEN <<>>
    ELSE LET r == Unique(SubSeq(s, 1, Len(s) - 1))
             x == s[Len(s)]
         IN  IF \E i \in 1..Len(r) : r[i] = x THEN r ELSE Append(r, x)

----------------------------------------------------------------------------
(* config.py *)

UNDER_PRESSURE_THRESHOLD_SECONDS == 100

\* mutant: the equity engine uses the cut-off of the ratio engine
MIN_BENCHMARK_LAPS_AsRatio == 5

MIN_BENCHMARK_LAPS == 8

QUADRATIC_REGRESSION_DEGREE == 2

SC_EQUITY_FREEZE == TRUE

\* the options as config.py ships them
ShippedConfig == [SC_EQUITY_FREEZE |-> SC_EQUITY_FREEZE]

INCIDENT_THRESHOLD_OPERATIONAL == 250

INCIDENT_THRESHOLD_MAJOR == 200

INCIDENT_THRESHOLD_TRAFFIC == 20

\* mutant: the detector exits at the entry threshold, without a hysteresis band
RECOVERY_COMPLETE_THRESHOLD_AtEntry == -10

RECOVERY_COMPLETE_THRESHOLD == -5

DRAWDOWN_ENTRY_THRESHOLD == -10

\* mutant: every exit finalizes an episode
MIN_RECOVERY_DURATION_Zero == 0

MIN_RECOVERY_DURATION == 1

----------------------------------------------------------------------------
(* The session the data provider hands over (session.laps, session.drivers) *)

DriverList == <<"1", "16", "44">>

Abbreviation == [n \in {"1", "16", "44"} |->
                    IF n = "1" THEN "VER" ELSE IF n = "16" THEN "LEC" ELSE "HAM"]

\* lap-time deviations a single lap of the race may show (NaN: no lap time)
AnomalyDeltas == {-200, 120, 400, NaN}

\* session time at which each driver crosses the line to start lap 1
GapProfiles == {<<0, 200, 400>>, <<400, 60, 0>>}

\* laps each driver completes (0: did not start)
LapCounts == {<<NumLaps, NumLaps, NumLaps>>, <<NumLaps, 1, 1>>, <<NumLaps, 1, 0>>}

\* runs of consecutive laps under a non-green track status
CautionRuns == {{}} \cup {a..b : a \in 1..NumLaps, b \in 1..NumLaps}

\* lap on which each of the first two drivers enters the pits (0: no stop)
PitPlans == {<<p, q>> : p \in 0..(NumLaps - 1), q \in 0..1}

Scenarios ==
    [ sc   : CautionRuns,
      pit  : PitPlans,
      anom : {<<0, 0, 0>>} \cup ((1..2) \X (1..NumLaps) \X AnomalyDeltas),
      gap  : GapProfiles,
      laps : LapCounts ]

PitLapOf(g, d) == IF d \in DOMAIN g.pit THEN g.pit[d] ELSE 0

LapsOf(g, d) == g.laps[d]

IsPitIn(g, d, l) == PitLapOf(g, d) # 0 /\ l = PitLapOf(g, d)

IsPitOut(g, d, l) == PitLapOf(g, d) # 0 /\ l = PitLapOf(g, d) + 1

\* duration of the lap without its anomaly: 90 s, a pit lap loses 20 s more
Nominal(g, d, l) == 9000 + (IF IsPitIn(g, d, l) \/ IsPitOut(g, d, l) THEN 2000 ELSE 0)

HasAnomaly(g, d, l) == g.anom[1] = d /\ g.anom[2] = l

LapTimeOf(g, d, l) ==
    IF HasAnomaly(g, d, l) THEN Add(Nominal(g, d, l), g.anom[3]) ELSE Nominal(g, d, l)

\* time on track: a lap without a recorded lap time still took its nominal time
Elapsed(g, d, l) == IF IsNaN(LapTimeOf(g, d, l)) THEN Nominal(g, d, l) ELSE LapTimeOf(g, d, l)

RECURSIVE TimeOf(_, _, _)
TimeOf(g, d, l) == IF l = 0 THEN g.gap[d] ELSE TimeOf(g, d, l - 1) + Elapsed(g, d, l)

LapRow(g, d, l) ==
    [ DriverNumber |-> DriverList[d],
      LapNumber    |-> l,
      Stint        |-> IF PitLapOf(g, d) # 0 /\ l > PitLapOf(g, d) THEN 2 ELSE 1,
      Compound     |-> IF PitLapOf(g, d) # 0 /\ l > PitLapOf(g, d) THEN "HARD" ELSE "SOFT",
      LapTime      |-> LapTimeOf(g, d, l),
      PitInTime    |-> IF IsPitIn(g, d, l) THEN TimeOf(g, d, l) ELSE NaN,
      PitOutTime   |-> IF IsPitOut(g, d, l) THEN TimeOf(g, d, l - 1) ELSE NaN,
      TrackStatus  |-> IF l \in g.sc THEN "4" ELSE "1",
      Time         |-> TimeOf(g, d, l) ]

RECURSIVE DriverRows(_, _, _)
DriverRows(g, d, l) ==
    IF l = 0 THEN <<>> ELSE Append(DriverRows(g, d, l - 1), LapRow(g, d, l))

RECURSIVE SessionLaps(_, _)
SessionLaps(g, d) ==
    IF d = 0 THEN <<>> ELSE SessionLaps(g, d - 1) \o DriverRows(g, d, LapsOf(g, d))

LoadSession(g) == [laps |-> SessionLaps(g, Len(DriverList)), drivers |-> DriverList]

----------------------------------------------------------------------------
(* execution_equity.py: estimate_traffic_threshold_dynamically *)

\* mutant: the upper limit of a valid gap is not applied
ValidGapRow_NoUpperLimit(r) ==
    /\ ~r.IsPit
    /\ ~r.IsSC
    /\ r.IntervalToAhead > 10

ValidGapRow(r) ==
    /\ ~r.IsPit
    /\ ~r.IsSC
    /\ r.IntervalToAhead > 10
    /\ r.IntervalToAhead < 900

valid_gaps(tbl) == Column(Filter(tbl, ValidGapRow), LAMBDA r : r.IntervalToAhead)

estimate_traffic_threshold_dynamically(tbl) ==
    IF Len(valid_gaps(tbl)) < 50 THEN 130
    ELSE Clip(Percentile50(valid_gaps(tbl)), 80, 300)

----------------------------------------------------------------------------
(* execution_equity.py: calculate_execution_equity *)

Rows(tbl) == 1..Len(tbl)

\* step 1: pit and caution flags, and the default gaps of step 2
IdentifyContextualLaps ==
    /\ pc = "flags"
    /\ all_laps' = [i \in Rows(all_laps) |->
            all_laps[i] @@
            [ IsPit   |-> ~IsNaN(all_laps[i].PitInTime) \/ ~IsNaN(all_laps[i].PitOutTime),
              IsSC    |-> all_laps[i].TrackStatus # "1",
              TimeSec |-> all_laps[i].Time,
              IntervalToAhead  |-> 1000,
              IntervalToBehind |-> 1000 ]]
    /\ lap_nums' = Unique(Column(all_laps, LAMBDA r : r.LapNumber))
    /\ pc' = "intervals"
    /\ UNCHANGED <<session, traffic_threshold, benchmark_laps, groups, trend_models,
                   avg_pit_loss, drivers_left, equity_curves, result>>
    /\ UNCHANGED <<ddState, srState>>
    /\ UNCHANGED config

\* mutant: the rows of the lap number are left in table order
SortedByTime_TableOrder(tbl, lap_num) ==
    LET S == {i \in Rows(tbl) : tbl[i].LapNumber = lap_num}
    IN  [k \in 1..Cardinality(S) |->
            CHOOSE i \in S : Cardinality({j \in S : j < i}) = k - 1]

\* rows of one lap number ordered by completion time (ties keep table order)
SortedByTime(tbl, lap_num) ==
    LET S == {i \in Rows(tbl) : tbl[i].LapNumber = lap_num}
        Before(j, i) == \/ tbl[j].TimeSec < tbl[i].TimeSec
                        \/ (tbl[j].TimeSec = tbl[i].TimeSec /\ j < i)
    IN  [k \in 1..Cardinality(S) |->
            CHOOSE i \in S : Cardinality({j \in S : Before(j, i)}) = k - 1]

\* step 2, one iteration of the loop over lap numbers
IntervalRecognition ==
    /\ pc = "intervals"
    /\ lap_nums # <<>>
    /\ LET lap_data == SortedByTime(all_laps, Head(lap_nums))
           n == Len(lap_data)
           Pos(i) == CHOOSE k \in 1..n : lap_data[k] = i
           \* .diff(): NaN on the first row, filled with 10.0
           Ahead(i) == IF Pos(i) = 1 THEN 1000
                       ELSE all_laps[i].TimeSec - all_laps[lap_data[Pos(i) - 1]].TimeSec
           \* .diff().shift(-1): NaN on the last row, filled with 10.0
           Behind(i) == IF Pos(i) = n THEN 1000
                        ELSE all_laps[lap_data[Pos(i) + 1]].TimeSec - all_laps[i].TimeSec
       IN  all_laps' = [i \in Rows(all_laps) |->
                IF n >= 2 /\ all_laps[i].LapNumber = Head(lap_nums)
                THEN [all_laps[i] EXCEPT !.IntervalToAhead = Ahead(i),
                                         !.IntervalToBehind = Behind(i)]
                ELSE all_laps[i]]
    /\ lap_nums' = Tail(lap_nums)
    /\ UNCHANGED <<pc, session, traffic_threshold, benchmark_laps, groups, trend_models,
                   avg_pit_loss, drivers_left, equity_curves, result>>
    /\ UNCHANGED <<ddState, srState>>
    /\ UNCHANGED config

\* mutant: in-traffic laps are kept in the benchmark sample
CleanRow_WithTraffic(r) == ~r.IsPit /\ ~r.IsSC

CleanRow(r) == ~r.IsPit /\ ~r.IsSC /\ ~r.InTraffic

\* calibration, traffic / pressure flags and the clean subset (start of step 3)
CalibrateTraffic ==
    /\ pc = "intervals"
    /\ lap_nums = <<>>
    /\ LET th == estimate_traffic_threshold_dynamically(all_laps)
           flagged == [i \in Rows(all_laps) |->
                all_laps[i] @@
                [ InTraffic     |-> all_laps[i].IntervalToAhead < th,
                  UnderPressure |-> all_laps[i].IntervalToBehind
                                        < UNDER_PRESSURE_THRESHOLD_SECONDS ]]
       IN  /\ traffic_threshold' = th
           /\ all_laps' = flagged
           /\ benchmark_laps' = [i \in Rows(Filter(flagged, CleanRow)) |->
                    Filter(flagged, CleanRow)[i] @@
                    [LapTimeSeconds |-> Filter(flagged, CleanRow)[i].LapTime]]
           /\ groups' = Unique(Column(flagged, LAMBDA r : <<r.Stint, r.Compound>>))
    /\ trend_models' = <<>>
    /\ pc' = "fit"
    /\ UNCHANGED <<session, lap_nums, avg_pit_loss, drivers_left, equity_curves, result>>
    /\ UNCHANGED <<ddState, srState>>
    /\ UNCHANGED config

\* sums of x^k and of x^k * (y - base) over the sample
Pow(x, k) == IF k = 0 THEN 1 ELSE x ^ k

PowSum(xs, k) == SumSeq([i \in 1..Len(xs) |-> Pow(xs[i], k)])

MomSum(xs, ys, base, k) == SumSeq([i \in 1..Len(xs) |-> Pow(xs[i], k) * (ys[i] - base)])

\* numpy.polyfit(xs, ys, deg) for deg 1 and 2: the least-squares solution of the
\* normal equations by Cramer's rule.  The coefficients are the exact rationals
\* num[k] / den, highest power first, of the fit to ys - base; the constant
\* coefficient of the fit to ys is base + num[last] / den.
polyfit(xs, ys, deg) ==
    LET base == ys[1]
        S0 == PowSum(xs, 0)
        S1 == PowSum(xs, 1)
        S2 == PowSum(xs, 2)
        S3 == PowSum(xs, 3)
        S4 == PowSum(xs, 4)
        T0 == MomSum(xs, ys, base, 0)
        T1 == MomSum(xs, ys, base, 1)
        T2 == MomSum(xs, ys, base, 2)
    IN  IF deg = 1
        THEN [ num  |-> <<S0 * T1 - S1 * T0, S2 * T0 - S1 * T1>>,
               den  |-> S0 * S2 - S1 * S1,
               base |-> base ]
        ELSE [ num  |-> << T2 * (S2 * S0 - S1 * S1) - S3 * (T1 * S0 - S1 * T0)
                                + S2 * (T1 * S1 - S2 * T0),
                           S4 * (T1 * S0 - T0 * S1) - T2 * (S3 * S0 - S1 * S2)
                                + S2 * (S3 * T0 - S2 * T1),
                           S4 * (S2 * T0 - S1 * T1) - S3 * (S3 * T0 - S2 * T1)
                                + T2 * (S3 * S1 - S2 * S2) >>,
               den  |-> S4 * (S2 * S0 - S1 * S1) - S3 * (S3 * S0 - S1 * S2)
                            + S2 * (S3 * S1 - S2 * S2),
               base |-> base ]

\* what the fit gives on a sample with a missing lap time: numpy either returns
\* NaN coefficients or raises LinAlgError, depending on the LAPACK build
NaNCoeffs == [num |-> <<NaN>>, den |-> 1, base |-> NaN]

\* a * lap^2 + b * lap + c  (or slope * lap + intercept), to the fixed-point grid
polyval(c, lap) ==
    IF IsNaN(c.base) \/ c.den = 0 THEN NaN
    ELSE IF Len(c.num) = 2
         THEN c.base + Round(c.num[1] * lap + c.num[2], c.den)
         ELSE c.base + Round(c.num[1] * lap * lap + c.num[2] * lap + c.num[3], c.den)

\* rows of a table that belong to one (stint, compound) key
GroupOf(tbl, key) == Filter(tbl, LAMBDA r : r.Stint = key[1] /\ r.Compound = key[2])

HasNaN(s) == \E i \in 1..Len(s) : IsNaN(s[i])

\* the model of one key: median below the minimum sample, else the degree-2 fit
BenchmarkModel(g_laps, coeffs) ==
    IF Len(g_laps) < MIN_BENCHMARK_LAPS
    THEN <<"median", IF g_laps # <<>>
                     THEN Median(Column(g_laps, LAMBDA r : r.LapTimeSeconds))
                     ELSE 9000>>
    ELSE <<"quadratic", coeffs>>

\* step 3, one iteration of the loop over (stint, compound) keys
FitBenchmark ==
    /\ pc = "fit"
    /\ groups # <<>>
    /\ LET key == Head(groups)
           g_laps == GroupOf(benchmark_laps, key)
           x == Column(g_laps, LAMBDA r : r.LapNumber)
           y == Column(g_laps, LAMBDA r : r.LapTimeSeconds)
           fits == Len(g_laps) >= MIN_BENCHMARK_LAPS
       IN  \/ /\ ~(fits /\ HasNaN(y))
              /\ trend_models' = trend_models @@
                    (key :> BenchmarkModel(g_laps,
                                IF fits THEN polyfit(x, y, QUADRATIC_REGRESSION_DEGREE)
                                        ELSE NaNCoeffs))
              /\ groups' = Tail(groups)
              /\ UNCHANGED <<pc, result>>
           \/ /\ fits /\ HasNaN(y)
              /\ trend_models' = trend_models @@ (key :> BenchmarkModel(g_laps, NaNCoeffs))
              /\ groups' = Tail(groups)
              /\ UNCHANGED <<pc, result>>
           \/ \* LinAlgError caught by the function's except clause: returns None
              /\ fits /\ HasNaN(y)
              /\ pc' = "done"
              /\ result' = None
              /\ UNCHANGED <<trend_models, groups>>
    /\ UNCHANGED <<session, all_laps, lap_nums, traffic_threshold, benchmark_laps,
                   avg_pit_loss, drivers_left, equity_curves>>
    /\ UNCHANGED <<ddState, srState>>
    /\ UNCHANGED config

get_expected_pace(row, models) ==
    IF <<row.Stint, row.Compound>> \in DOMAIN models
    THEN LET model == models[<<row.Stint, row.Compound>>]
         IN  IF model[1] = "quadratic" THEN polyval(model[2], row.LapNumber)
                                       ELSE model[2]
    ELSE NaN

\* mutant: the laps are scored as soon as the first key has its model
ApplyExpectedPace_Early ==
    /\ pc = "fit"
    /\ trend_models # <<>>
    /\ all_laps' = [i \in Rows(all_laps) |->
            all_laps[i] @@
            [ LapTimeSeconds |-> all_laps[i].LapTime,
              ExpectedPace   |-> get_expected_pace(all_laps[i], trend_models),
              RawDelta       |-> Sub(all_laps[i].LapTime,
                                     get_expected_pace(all_laps[i], trend_models)) ]]
    /\ pc' = "pit"
    /\ UNCHANGED <<session, lap_nums, traffic_threshold, benchmark_laps, groups,
                   trend_models, avg_pit_loss, drivers_left, equity_curves, result>>
    /\ UNCHANGED <<ddState, srState>>
    /\ UNCHANGED config

\* step 4: expected pace and raw delta of every lap
ApplyExpectedPace ==
    /\ pc = "fit"
    /\ groups = <<>>
    /\ all_laps' = [i \in Rows(all_laps) |->
            all_laps[i] @@
            [ LapTimeSeconds |-> all_laps[i].LapTime,
              ExpectedPace   |-> get_expected_pace(all_laps[i], trend_models),
              RawDelta       |-> Sub(all_laps[i].LapTime,
                                     get_expected_pace(all_laps[i], trend_models)) ]]
    /\ pc' = "pit"
    /\ UNCHANGED <<session, lap_nums, traffic_threshold, benchmark_laps, groups,
                   trend_models, avg_pit_loss, drivers_left, equity_curves, result>>
    /\ UNCHANGED <<ddState, srState>>
    /\ UNCHANGED config

\* mutant: caution laps are not excluded from the pit-loss sample
pit_laps_WithCaution(tbl) == Filter(tbl, LAMBDA r : r.IsPit)

pit_laps(tbl) == Filter(tbl, LAMBDA r : r.IsPit /\ ~r.IsSC)

\* step 5: the typical pit loss
PitAnalysis ==
    /\ pc = "pit"
    /\ avg_pit_loss' = IF pit_laps(all_laps) # <<>>
                       THEN Median(Column(pit_laps(all_laps), LAMBDA r : r.RawDelta))
                       ELSE 2000
    /\ pc' = "equity"
    /\ UNCHANGED <<session, all_laps, lap_nums, traffic_threshold, benchmark_laps, groups,
                   trend_models, drivers_left, equity_curves, result>>
    /\ UNCHANGED <<ddState, srState>>
    /\ UNCHANGED config

\* mutant: the pit branch is taken before the caution check
calculate_equity_change_PitFirst(row, pit_loss) ==
    IF row.IsPit THEN Neg(Sub(row.RawDelta, pit_loss))
    ELSE IF row.IsSC THEN 0
    ELSE IF ~IsNaN(row.RawDelta) THEN Neg(row.RawDelta)
    ELSE 0

calculate_equity_change(row, pit_loss) ==
    IF row.IsSC THEN 0
    ELSE IF row.IsPit THEN Neg(Sub(row.RawDelta, pit_loss))
    ELSE IF ~IsNaN(row.RawDelta) THEN Neg(row.RawDelta)
    ELSE 0

\* step 6
EquityChangeStep ==
    /\ pc = "equity"
    /\ all_laps' = [i \in Rows(all_laps) |->
            all_laps[i] @@
            [EquityChange |-> calculate_equity_change(all_laps[i], avg_pit_loss)]]
    /\ pc' = "attribution"
    /\ UNCHANGED <<session, lap_nums, traffic_threshold, benchmark_laps, groups,
                   trend_models, avg_pit_loss, drivers_left, equity_curves, result>>
    /\ UNCHANGED <<ddState, srState>>
    /\ UNCHANGED config

\* mutant: the traffic condition is tested before the major-incident one
FailureType_TrafficFirst(row) ==
    IF row.IsPit /\ Lt(row.EquityChange, 0 - INCIDENT_THRESHOLD_OPERATIONAL)
        THEN "Operational"
    ELSE IF row.InTraffic /\ Lt(row.EquityChange, 0 - INCIDENT_THRESHOLD_TRAFFIC)
        THEN "Traffic"
    ELSE IF ~row.IsPit /\ Lt(row.EquityChange, 0 - INCIDENT_THRESHOLD_MAJOR)
        THEN "Major Incident"
    ELSE "None"

\* np.select(conditions, choices, default='None'): the first true condition wins
FailureType(row) ==
    IF row.IsPit /\ Lt(row.EquityChange, 0 - INCIDENT_THRESHOLD_OPERATIONAL)
        THEN "Operational"
    ELSE IF ~row.IsPit /\ Lt(row.EquityChange, 0 - INCIDENT_THRESHOLD_MAJOR)
        THEN "Major Incident"
    ELSE IF row.InTraffic /\ Lt(row.EquityChange, 0 - INCIDENT_THRESHOLD_TRAFFIC)
        THEN "Traffic"
    ELSE "None"

\* step 7
FailureAttribution ==
    /\ pc = "attribution"
    /\ all_laps' = [i \in Rows(all_laps) |->
            all_laps[i] @@ [FailureType |-> FailureType(all_laps[i])]]
    /\ drivers_left' = session.drivers
    /\ equity_curves' = <<>>
    /\ pc' = "aggregate"
    /\ UNCHANGED <<session, lap_nums, traffic_threshold, benchmark_laps, groups,
                   trend_models, avg_pit_loss, result>>
    /\ UNCHANGED <<ddState, srState>>
    /\ UNCHANGED config

\* pandas cumsum(): a NaN entry stays NaN and is skipped by the running sum
RECURSIVE SkipSum(_, _)
SkipSum(s, n) ==
    IF n = 0 THEN 0
    ELSE SkipSum(s, n - 1) + (IF IsNaN(s[n]) THEN 0 ELSE s[n])

cumsum(s) == [i \in 1..Len(s) |-> IF IsNaN(s[i]) THEN NaN ELSE SkipSum(s, i)]

\* rows of a table ordered by lap number (a driver's lap numbers are distinct)
SortedByLap(tbl) ==
    [k \in 1..Len(tbl) |->
        tbl[CHOOSE i \in Rows(tbl) :
                Cardinality({j \in Rows(tbl) : tbl[j].LapNumber < tbl[i].LapNumber}) = k - 1]]

\* the per-driver table of step 8
\* mutant: every lap after a caution lap is a restart lap
DriverCurve_AfterCaution(tbl, driver) ==
    LET d_laps == SortedByLap(Filter(tbl, LAMBDA r : r.DriverNumber = driver))
        equity == cumsum(Column(d_laps, LAMBDA r : r.EquityChange))
    IN  [i \in Rows(d_laps) |->
            [ Driver          |-> Abbreviation[driver],
              LapNumber       |-> d_laps[i].LapNumber,
              EquityChange    |-> d_laps[i].EquityChange,
              ExecutionEquity |-> equity[i],
              FailureType     |-> d_laps[i].FailureType,
              InTraffic       |-> d_laps[i].InTraffic,
              UnderPressure   |-> d_laps[i].UnderPressure,
              IsSC            |-> d_laps[i].IsSC,
              RestartLap      |-> i > 1 /\ d_laps[i - 1].IsSC ]]

DriverCurve(tbl, driver) ==
    LET d_laps == SortedByLap(Filter(tbl, LAMBDA r : r.DriverNumber = driver))
        equity == cumsum(Column(d_laps, LAMBDA r : r.EquityChange))
        \* IsSC.shift(1, fill_value=False)
        WasSC(i) == IF i = 1 THEN FALSE ELSE d_laps[i - 1].IsSC
    IN  [i \in Rows(d_laps) |->
            [ Driver          |-> Abbreviation[driver],
              LapNumber       |-> d_laps[i].LapNumber,
              EquityChange    |-> d_laps[i].EquityChange,
              ExecutionEquity |-> equity[i],
              FailureType     |-> d_laps[i].FailureType,
              InTraffic       |-> d_laps[i].InTraffic,
              UnderPressure   |-> d_laps[i].UnderPressure,
              IsSC            |-> d_laps[i].IsSC,
              RestartLap      |-> WasSC(i) /\ ~d_laps[i].IsSC ]]

\* step 8, one iteration of the loop over session.drivers
AggregateDriver ==
    /\ pc = "aggregate"
    /\ drivers_left # <<>>
    /\ LET curve == DriverCurve(all_laps, Head(drivers_left))
       IN  equity_curves' = IF curve = <<>> THEN equity_curves
                                            ELSE Append(equity_curves, curve)
    /\ drivers_left' = Tail(drivers_left)
    /\ UNCHANGED <<pc, session, all_laps, lap_nums, traffic_threshold, benchmark_laps,
                   groups, trend_models, avg_pit_loss, result>>
    /\ UNCHANGED <<ddState, srState>>
    /\ UNCHANGED config

RECURSIVE concat(_)
concat(tables) == IF tables = <<>> THEN <<>> ELSE Head(tables) \o concat(Tail(tables))

\* return pd.concat(equity_curves)
ReturnEquity ==
    /\ pc = "aggregate"
    /\ drivers_left = <<>>
    /\ result' = concat(equity_curves)
    /\ pc' = "done"
    /\ UNCHANGED <<session, all_laps, lap_nums, traffic_threshold, benchmark_laps, groups,
                   trend_models, avg_pit_loss, drivers_left, equity_curves>>
    /\ UNCHANGED <<ddState, srState>>
    /\ UNCHANGED config

----------------------------------------------------------------------------
(* Values of the variables of a function that is not being executed *)

EquityIdle ==
    /\ session = None
    /\ all_laps = <<>>
    /\ lap_nums = <<>>
    /\ traffic_threshold = NaN
    /\ benchmark_laps = <<>>
    /\ groups = <<>>
    /\ trend_models = <<>>
    /\ avg_pit_loss = NaN
    /\ drivers_left = <<>>
    /\ equity_curves = <<>>

SeasonIdle ==
    /\ season = <<>>
    /\ race_queue = <<>>
    /\ all_metrics = <<>>
    /\ aggregated_metrics_df = <<>>

DrawdownIdle ==
    /\ equity_df = <<>>
    /\ driver_queue = <<>>
    /\ d_df = <<>>
    /\ row_idx = 1
    /\ mdd = NaN
    /\ in_dd = FALSE
    /\ trough_lap = 0
    /\ trough_equity = 0
    /\ current_failure_type = "None"
    /\ recovery_velocities = <<>>
    /\ recovery_curvatures = <<>>
    /\ recovery_types = <<>>
    /\ metrics_summary = <<>>
    /\ SeasonIdle

RatioLoopIdle ==
    /\ drivers = <<>>
    /\ stint_queue = <<>>
    /\ stint_sharpe_ratios = <<>>
    /\ stint_sortino_ratios = <<>>
    /\ stint_weights = <<>>
    /\ stint_mean_deltas = <<>>
    /\ stint_std_devs = <<>>
    /\ stint_downside_devs = <<>>
    /\ driver_analysis = <<>>

RatioIdle ==
    /\ laps = <<>>
    /\ sr_groups = <<>>
    /\ sr_trend_models = <<>>
    /\ RatioLoopIdle

----------------------------------------------------------------------------
(* The equity engine run on one race *)

\* session.load() has returned and no function has run yet
RaceLoaded ==
    /\ config = ShippedConfig
    /\ \E g \in Scenarios :
          /\ session = LoadSession(g)
          /\ all_laps = LoadSession(g).laps
    /\ lap_nums = <<>>
    /\ traffic_threshold = NaN
    /\ benchmark_laps = <<>>
    /\ groups = <<>>
    /\ trend_models = <<>>
    /\ avg_pit_loss = NaN
    /\ drivers_left = <<>>
    /\ equity_curves = <<>>
    /\ result = None
    /\ DrawdownIdle
    /\ RatioIdle

Init == RaceLoaded /\ pc = "flags"

Next ==
    \/ IdentifyContextualLaps
    \/ IntervalRecognition
    \/ CalibrateTraffic
    \/ FitBenchmark
    \/ ApplyExpectedPace
    \/ PitAnalysis
    \/ EquityChangeStep
    \/ FailureAttribution
    \/ AggregateDriver
    \/ ReturnEquity

Spec == Init /\ [][Next]_vars

----------------------------------------------------------------------------
(* Properties of the equity engine *)

Has(r, f) == f \in DOMAIN r

\* laps the equity engine has scored
EquityScored == {i \in Rows(all_laps) : Has(all_laps[i], "ExpectedPace")}

Returned == pc = "done" /\ result # None

DriversOf(tbl) == {tbl[i].Driver : i \in Rows(tbl)}

\* a competitor's rows of the returned table, in lap-number order
CurveOf(tbl, a) == SortedByLap(Filter(tbl, LAMBDA r : r.Driver = a))

\* C1: per competitor, in lap order, the first lap's ExecutionEquity is its own
\* EquityChange, every later lap's is the previous lap's plus its own
\* EquityChange, and the final lap's is the sum of all the EquityChange values.
C1_RunningSum ==
    Returned =>
        \A a \in DriversOf(result) :
            LET c == CurveOf(result, a)
            IN  /\ c[1].ExecutionEquity = c[1].EquityChange
                /\ \A i \in 2..Len(c) :
                      c[i].ExecutionEquity
                          = Add(c[i - 1].ExecutionEquity, c[i].EquityChange)

\* C2: a caution lap has EquityChange exactly 0, pit lap or not and whatever its
\* raw delta, so a caution lap carries the cumulative equity of the competitor's
\* latest earlier lap that has one (0 when there is none): the equity is
\* unchanged across a run of caution laps.
C2_CautionFrozen ==
    /\ \A i \in Rows(all_laps) :
          (Has(all_laps[i], "EquityChange") /\ all_laps[i].TrackStatus # "1")
              => all_laps[i].EquityChange = 0
    /\ Returned =>
          \A a \in DriversOf(result) :
              LET c == CurveOf(result, a)
              IN  \A i \in Rows(c) :
                      c[i].IsSC =>
                          LET scored == {j \in 1..(i - 1) : ~IsNaN(c[j].ExecutionEquity)}
                          IN  /\ c[i].EquityChange = 0
                              /\ scored = {} => c[i].ExecutionEquity = 0
                              /\ \A j \in scored :
                                    (\A k \in scored : k <= j)
                                        => c[i].ExecutionEquity = c[j].ExecutionEquity
                              /\ (i > 1 /\ c[i - 1].IsSC)
                                    => c[i].ExecutionEquity = c[i - 1].ExecutionEquity

\* a run of two caution laps containing a pit lap with a non-zero raw delta
C2_Witness ==
    /\ Returned
    /\ \E i, j \in Rows(all_laps) :
          /\ all_laps[i].DriverNumber = all_laps[j].DriverNumber
          /\ all_laps[j].LapNumber = all_laps[i].LapNumber + 1
          /\ all_laps[i].IsSC /\ all_laps[j].IsSC
          /\ all_laps[j].IsPit
          /\ ~IsNaN(all_laps[j].RawDelta) /\ all_laps[j].RawDelta # 0
          /\ all_laps[i].LapNumber > 1

\* C6: every lap gets exactly one FailureType, by first match: pit lap with
\* EquityChange < -2.5 is Operational; non-pit lap with EquityChange < -2.0 is
\* Major Incident; in-traffic lap with EquityChange < -0.2 is Traffic; otherwise
\* None.  A non-pit in-traffic lap below -2.0 is Major Incident, a non-pit lap is
\* never Operational, a caution lap is always None.
C6_FailureAttribution ==
    \A i \in Rows(all_laps) :
        Has(all_laps[i], "FailureType") =>
            LET r   == all_laps[i]
                ec  == r.EquityChange
                num == ~IsNaN(ec)
                op  == r.IsPit /\ num /\ ec < -250
                maj == ~r.IsPit /\ num /\ ec < -200
                trf == r.InTraffic /\ num /\ ec < -20
            IN  /\ r.FailureType \in {"Operational", "Major Incident", "Traffic", "None"}
                /\ r.FailureType = "Operational" <=> op
                /\ r.FailureType = "Major Incident" <=> maj
                /\ r.FailureType = "Traffic" <=> (trf /\ ~op /\ ~maj)
                /\ r.FailureType = "None" <=> (~op /\ ~maj /\ ~trf)
                /\ (~r.IsPit /\ r.InTraffic /\ num /\ ec < -200)
                        => r.FailureType = "Major Incident"
                /\ ~r.IsPit => r.FailureType # "Operational"
                /\ r.IsSC => r.FailureType = "None"

\* a non-pit lap in traffic that lost more than 2.0 s
C6_Witness ==
    \E i \in Rows(all_laps) :
        /\ Has(all_laps[i], "FailureType")
        /\ ~all_laps[i].IsPit /\ all_laps[i].InTraffic
        /\ Lt(all_laps[i].EquityChange, -200)
        /\ all_laps[i].FailureType = "Major Incident"

\* raw delta of a lap as the claims define it: lap duration minus the pace the
\* key's benchmark model expects
RawDeltaOf(r) == Sub(r.LapTime, get_expected_pace(r, trend_models))

RowIsPit(r) == ~IsNaN(r.PitInTime) \/ ~IsNaN(r.PitOutTime)

RowIsGreen(r) == r.TrackStatus = "1"

\* median raw delta over the non-caution pit laps of the race
TypicalPitLoss ==
    Median(Column(Filter(all_laps, LAMBDA r : RowIsPit(r) /\ RowIsGreen(r)), RawDeltaOf))

\* C7 as stated: on every non-caution lap EquityChange is -(raw delta) off the
\* pits and -(raw delta - average pit loss) on a pit lap.
C7_EquityChangeRule ==
    \A i \in Rows(all_laps) :
        (Has(all_laps[i], "EquityChange") /\ RowIsGreen(all_laps[i])) =>
            all_laps[i].EquityChange =
                IF RowIsPit(all_laps[i])
                THEN Neg(Sub(RawDeltaOf(all_laps[i]), TypicalPitLoss))
                ELSE Neg(RawDeltaOf(all_laps[i]))

\* C7 (amended): on a non-caution lap EquityChange is -(raw delta - average pit
\* loss) when the lap is a pit lap, so a pit lap whose raw delta equals the
\* average pit loss has EquityChange 0; when it is not a pit lap EquityChange is
\* -(raw delta) if the raw delta is defined and 0 if it is not.
C7_EquityChangeRuleAmended ==
    \A i \in Rows(all_laps) :
        (Has(all_laps[i], "EquityChange") /\ RowIsGreen(all_laps[i])) =>
            LET r   == all_laps[i]
                raw == RawDeltaOf(r)
            IN  /\ RowIsPit(r) =>
                      /\ r.EquityChange = Neg(Sub(raw, TypicalPitLoss))
                      /\ (~IsNaN(raw) /\ raw = TypicalPitLoss) => r.EquityChange = 0
                /\ (~RowIsPit(r) /\ ~IsNaN(raw)) => r.EquityChange = 0 - raw
                /\ (~RowIsPit(r) /\ IsNaN(raw)) => r.EquityChange = 0

\* a race with a green pit lap at the typical loss, another green pit lap off
\* it, a caution pit lap with yet another delta, and a scored non-pit lap
C7_Witness ==
    /\ pc = "done"
    /\ \E i \in Rows(all_laps) :
          /\ Has(all_laps[i], "EquityChange")
          /\ RowIsGreen(all_laps[i]) /\ RowIsPit(all_laps[i])
          /\ RawDeltaOf(all_laps[i]) = TypicalPitLoss
          /\ ~IsNaN(TypicalPitLoss) /\ TypicalPitLoss # 0
    /\ \E i \in Rows(all_laps) :
          /\ Has(all_laps[i], "EquityChange")
          /\ RowIsGreen(all_laps[i]) /\ RowIsPit(all_laps[i])
          /\ ~IsNaN(RawDeltaOf(all_laps[i]))
          /\ RawDeltaOf(all_laps[i]) # TypicalPitLoss
          /\ all_laps[i].EquityChange # 0
    /\ \E i \in Rows(all_laps) :
          /\ Has(all_laps[i], "EquityChange")
          /\ ~RowIsGreen(all_laps[i]) /\ RowIsPit(all_laps[i])
          /\ ~IsNaN(RawDeltaOf(all_laps[i]))
          /\ RawDeltaOf(all_laps[i]) # TypicalPitLoss
    /\ \E i \in Rows(all_laps) :
          /\ Has(all_laps[i], "EquityChange")
          /\ RowIsGreen(all_laps[i]) /\ ~RowIsPit(all_laps[i])
          /\ ~IsNaN(RawDeltaOf(all_laps[i]))
          /\ all_laps[i].EquityChange # 0

\* the finishers of row i's lap number that crossed the line before / after it
FinishedBefore(i) ==
    {j \in Rows(all_laps) :
        /\ all_laps[j].LapNumber = all_laps[i].LapNumber
        /\ \/ all_laps[j].Time < all_laps[i].Time
           \/ (all_laps[j].Time = all_laps[i].Time /\ j < i)}

FinishedAfter(i) ==
    {j \in Rows(all_laps) :
        /\ all_laps[j].LapNumber = all_laps[i].LapNumber
        /\ \/ all_laps[j].Time > all_laps[i].Time
           \/ (all_laps[j].Time = all_laps[i].Time /\ j > i)}

IntervalsDone == pc \notin {"flags", "intervals"} /\ all_laps # <<>>
                    /\ Has(all_laps[1], "IntervalToAhead")

\* C9: on every lap number, gap-to-ahead is the lap's timestamp minus that of
\* the finisher immediately before it and gap-to-behind the timestamp of the
\* finisher immediately after it minus its own; the first finisher's
\* gap-to-ahead, the last finisher's gap-to-behind and both gaps of a lap
\* number completed by one competitor are the sentinel 10.0.
C9_Gaps ==
    IntervalsDone =>
        \A i \in Rows(all_laps) :
            /\ IF FinishedBefore(i) = {}
               THEN all_laps[i].IntervalToAhead = 1000
               ELSE \E j \in FinishedBefore(i) :
                        /\ \A k \in FinishedBefore(i) : all_laps[k].Time <= all_laps[j].Time
                        /\ all_laps[i].IntervalToAhead = all_laps[i].Time - all_laps[j].Time
            /\ IF FinishedAfter(i) = {}
               THEN all_laps[i].IntervalToBehind = 1000
               ELSE \E j \in FinishedAfter(i) :
                        /\ \A k \in FinishedAfter(i) : all_laps[k].Time >= all_laps[j].Time
                        /\ all_laps[i].IntervalToBehind = all_laps[j].Time - all_laps[i].Time

\* three finishers of one lap number crossing the line in an order other than
\* the table's, and another lap number completed by a single competitor
C9_Witness ==
    /\ IntervalsDone
    /\ \E i, j \in Rows(all_laps) :
          /\ i < j
          /\ all_laps[i].LapNumber = all_laps[j].LapNumber
          /\ all_laps[j].Time < all_laps[i].Time
          /\ Cardinality(FinishedBefore(i)) = 2
          /\ all_laps[i].IntervalToAhead < 1000
          /\ all_laps[j].IntervalToBehind < 1000
    /\ \E i \in Rows(all_laps) :
          /\ FinishedBefore(i) = {} /\ FinishedAfter(i) = {}
          /\ all_laps[i].IntervalToAhead = 1000 /\ all_laps[i].IntervalToBehind = 1000

\* the caution laps of a curve that are directly followed by a non-caution lap
CautionRunEnds(c) == {e \in 1..(Len(c) - 1) : c[e].IsSC /\ ~c[e + 1].IsSC}

\* C20: in each competitor's lap-ordered series RestartLap is true exactly on a
\* non-caution lap whose preceding lap is a caution lap: never on a caution
\* lap, never on the first lap, and once for every maximal run of caution laps
\* that a non-caution lap follows; EquityChange and FailureType are those
\* computed before the flag.
C20_RestartLap ==
    Returned =>
        \A a \in DriversOf(result) :
            LET c == CurveOf(result, a)
            IN  /\ \A i \in Rows(c) :
                      /\ c[i].RestartLap <=> (i > 1 /\ c[i - 1].IsSC /\ ~c[i].IsSC)
                      /\ c[i].RestartLap => ~c[i].IsSC
                /\ ~c[1].RestartLap
                /\ \A e \in CautionRunEnds(c) : c[e + 1].RestartLap
                /\ Cardinality({i \in Rows(c) : c[i].RestartLap})
                      = Cardinality(CautionRunEnds(c))
                /\ \A i \in Rows(c) :
                      \E k \in Rows(all_laps) :
                          /\ Abbreviation[all_laps[k].DriverNumber] = a
                          /\ all_laps[k].LapNumber = c[i].LapNumber
                          /\ all_laps[k].EquityChange = c[i].EquityChange
                          /\ all_laps[k].FailureType = c[i].FailureType

\* a competitor with a run of two caution laps followed by a restart lap
C20_Witness ==
    /\ Returned
    /\ \E a \in DriversOf(result) :
          LET c == CurveOf(result, a)
          IN  \E i \in 3..Len(c) :
                  /\ c[i - 2].IsSC
                  /\ c[i - 1].IsSC
                  /\ ~c[i - 1].RestartLap
                  /\ c[i].RestartLap

\* C21: a lap whose raw delta is undefined has EquityChange 0, pit lap or not,
\* so no lap of the returned table has an undefined EquityChange or
\* ExecutionEquity.
C21_UndefinedDelta ==
    /\ \A i \in Rows(all_laps) :
          (Has(all_laps[i], "EquityChange") /\ IsNaN(RawDeltaOf(all_laps[i])))
              => all_laps[i].EquityChange = 0
    /\ Returned =>
          \A i \in Rows(result) :
              /\ ~IsNaN(result[i].EquityChange)
              /\ ~IsNaN(result[i].ExecutionEquity)

\* laps that are at once non-pit, non-caution and at or above the calibrated
\* gap-to-ahead threshold, in table order
CleanSample ==
    Filter(all_laps, LAMBDA r : /\ ~RowIsPit(r)
                                /\ RowIsGreen(r)
                                /\ r.IntervalToAhead >= traffic_threshold)

\* the model of a key built from a sample of laps
ModelOf(sample, key) ==
    LET g_laps == [i \in Rows(GroupOf(sample, key)) |->
                      GroupOf(sample, key)[i]
                          @@ [LapTimeSeconds |-> GroupOf(sample, key)[i].LapTime]]
        x == Column(g_laps, LAMBDA r : r.LapNumber)
        y == Column(g_laps, LAMBDA r : r.LapTimeSeconds)
    IN  IF Len(g_laps) >= 8 /\ ~HasNaN(y)
        THEN BenchmarkModel(g_laps, polyfit(x, y, 2))
        ELSE BenchmarkModel(g_laps, NaNCoeffs)

Calibrated == pc \notin {"flags", "intervals"}

\* C27: every benchmark model of the equity engine is the model of the key's
\* laps that are at once non-pit, non-caution and not in traffic, so no other
\* lap contributes to its sample count, median or coefficients; the expected
\* pace of every lap, pit, caution and in-traffic laps included, is the value
\* of its key's model.
C27_CleanLapsOnly ==
    Calibrated =>
        /\ Len(benchmark_laps) = Len(CleanSample)
        /\ \A i \in Rows(benchmark_laps) :
              /\ benchmark_laps[i].DriverNumber = CleanSample[i].DriverNumber
              /\ benchmark_laps[i].LapNumber = CleanSample[i].LapNumber
        /\ \A key \in DOMAIN trend_models : trend_models[key] = ModelOf(CleanSample, key)
        /\ \A i \in EquityScored :
              LET key == <<all_laps[i].Stint, all_laps[i].Compound>>
              IN  /\ key \in DOMAIN trend_models
                  /\ all_laps[i].ExpectedPace =
                        IF trend_models[key][1] = "median" THEN trend_models[key][2]
                        ELSE polyval(trend_models[key][2], all_laps[i].LapNumber)

\* a key with a clean lap, a pit lap, a caution lap and an in-traffic lap whose
\* lap time would change the model, all four scored by the key's model
C27_Witness ==
    /\ Calibrated
    /\ \E key \in DOMAIN trend_models :
          /\ ModelOf(Filter(all_laps, LAMBDA r : ~RowIsPit(r) /\ RowIsGreen(r)), key)
                # trend_models[key]
          /\ \E c, p, s, f \in EquityScored :
                /\ \A i \in {c, p, s, f} :
                      /\ <<all_laps[i].Stint, all_laps[i].Compound>> = key
                      /\ ~IsNaN(all_laps[i].ExpectedPace)
                /\ CleanRow(all_laps[c])
                /\ all_laps[p].IsPit /\ ~all_laps[p].IsSC
                /\ all_laps[s].IsSC /\ ~all_laps[s].IsPit
                /\ all_laps[f].InTraffic /\ ~all_laps[f].IsPit /\ ~all_laps[f].IsSC

----------------------------------------------------------------------------
(* Steps 5 and 6 of the equity engine under either setting of the freeze option *)

\* laps of the table the two steps are run on
FreezeLaps == 2

\* lap tables as step 4 leaves them: every combination of pit flag, caution
\* flag and raw delta (NaN: no lap time) on each lap of one competitor
ScoredTables ==
    LET RawDeltas == {-150, 300, 2100, NaN}
    IN  { [i \in 1..FreezeLaps |->
              [ DriverNumber |-> "1",
                LapNumber    |-> i,
                IsPit        |-> f[i][1],
                IsSC         |-> f[i][2],
                RawDelta     |-> f[i][3] ]] :
          f \in [1..FreezeLaps -> BOOLEAN \X BOOLEAN \X RawDeltas] }

\* config.py is imported with SC_EQUITY_FREEZE set to either value; the run
\* has reached step 5
InitFreeze ==
    /\ config \in [SC_EQUITY_FREEZE : BOOLEAN]
    /\ all_laps \in ScoredTables
    /\ pc = "pit"
    /\ result = None
    /\ session = None
    /\ lap_nums = <<>>
    /\ traffic_threshold = NaN
    /\ benchmark_laps = <<>>
    /\ groups = <<>>
    /\ trend_models = <<>>
    /\ avg_pit_loss = NaN
    /\ drivers_left = <<>>
    /\ equity_curves = <<>>
    /\ DrawdownIdle
    /\ RatioIdle

NextFreeze ==
    \/ PitAnalysis
    \/ EquityChangeStep

SpecFreeze == InitFreeze /\ [][NextFreeze]_vars

\* EquityChange of a lap by the pit / non-pit rules alone
OrdinaryEquityChange(row) ==
    IF row.IsPit THEN Neg(Sub(row.RawDelta, avg_pit_loss))
    ELSE IF ~IsNaN(row.RawDelta) THEN Neg(row.RawDelta)
    ELSE 0

\* C22: with SC_EQUITY_FREEZE enabled a caution lap's EquityChange is 0, and
\* with it disabled a caution lap's EquityChange is the one the ordinary pit /
\* non-pit rules give.
C22_FreezeConfigurable ==
    \A i \in Rows(all_laps) :
        (Has(all_laps[i], "EquityChange") /\ all_laps[i].IsSC) =>
            all_laps[i].EquityChange =
                IF config.SC_EQUITY_FREEZE THEN 0
                ELSE OrdinaryEquityChange(all_laps[i])

----------------------------------------------------------------------------
(* The equity table handed to calculate_drawdown_metrics *)

FreeLaps == 4

\* what one lap of an equity curve can look like: its equity change, the failure
\* type the attribution gives a change of that size, and its caution flag.  The
\* change is NaN on a green pit lap that has no lap time.
LapKinds ==
    { [ec |-> -300, ft |-> "Major Incident", sc |-> FALSE],
      [ec |-> -30,  ft |-> "Traffic",        sc |-> FALSE],
      [ec |-> -12,  ft |-> "None",           sc |-> FALSE],
      [ec |-> -7,   ft |-> "None",           sc |-> FALSE],
      [ec |-> 4,    ft |-> "None",           sc |-> FALSE],
      [ec |-> 150,  ft |-> "None",           sc |-> FALSE],
      [ec |-> 0,    ft |-> "None",           sc |-> TRUE],
      [ec |-> NaN,  ft |-> "None",           sc |-> FALSE] }

Kind(ec, ft) == [ec |-> ec, ft |-> ft, sc |-> FALSE]

\* a drawdown of each failure type followed by its recovery, one whose trough
\* comes a lap after the entry, and one that recovers a lap after its trough
Episodes ==
    { <<Kind(-300, "Major Incident"), Kind(150, "None"), Kind(150, "None")>>,
      <<Kind(-300, "Operational"), Kind(150, "None"), Kind(4, "None"), Kind(150, "None")>>,
      <<Kind(-30, "Traffic"), Kind(4, "None"), Kind(150, "None")>>,
      <<Kind(-12, "None"), Kind(4, "None"), Kind(4, "None")>>,
      <<Kind(-12, "None"), Kind(-300, "Major Incident"), Kind(150, "None"),
        Kind(150, "None"), Kind(150, "None")>>,
      <<Kind(-12, "None"), Kind(150, "None")>> }

\* races of FreeLaps arbitrary laps, and races of a first lap that sets the peak
\* followed by two complete episodes
RaceCurves ==
    [1..FreeLaps -> LapKinds]
    \cup {<<Kind(4, "None")>> \o e1 \o e2 : e1 \in Episodes, e2 \in Episodes}

\* a competitor with one recovered episode whose race ends In-Drawdown, and the
\* shorter races of the competitor listed after it
PriorCurves ==
    { <<Kind(4, "None"), Kind(-300, "Major Incident"), Kind(150, "None"),
        Kind(150, "None"), Kind(-30, "Traffic")>> }

FollowerCurves == [1..(FreeLaps - 1) -> LapKinds]

\* rows of one competitor as calculate_execution_equity returns them
EquityRows(driver, kinds) ==
    LET equity == cumsum([i \in 1..Len(kinds) |-> kinds[i].ec])
    IN  [i \in 1..Len(kinds) |->
            [ Driver          |-> driver,
              LapNumber       |-> i,
              EquityChange    |-> kinds[i].ec,
              ExecutionEquity |-> equity[i],
              FailureType     |-> kinds[i].ft,
              InTraffic       |-> kinds[i].ft = "Traffic",
              UnderPressure   |-> FALSE,
              IsSC            |-> kinds[i].sc,
              RestartLap      |-> i > 1 /\ kinds[i - 1].sc /\ ~kinds[i].sc ]]

\* every table the model hands to calculate_drawdown_metrics
EquityTables ==
    {EquityRows("LEC", curve) : curve \in RaceCurves}
    \cup {EquityRows("VER", prior) \o EquityRows("LEC", curve) :
            prior \in PriorCurves, curve \in FollowerCurves}
    \cup {EquityRows("LEC", <<Kind(4, "None")>> \o e) \o EquityRows("VER", prior) :
            prior \in PriorCurves, e \in Episodes}

----------------------------------------------------------------------------
(* drawdown_metrics.py: calculate_drawdown_metrics *)

\* pandas cummax(): a NaN entry stays NaN and is skipped by the running maximum
cummax(s) ==
    [i \in 1..Len(s) |->
        IF IsNaN(s[i]) THEN NaN
        ELSE CHOOSE m \in {s[j] : j \in {k \in 1..i : ~IsNaN(s[k])}} :
                \A j \in 1..i : IsNaN(s[j]) \/ s[j] <= m]

\* pandas min(): NaN are skipped, NaN when nothing is left
MinSkipNaN(s) ==
    IF DropNaN(s) = <<>> THEN NaN
    ELSE CHOOSE m \in {s[j] : j \in {k \in 1..Len(s) : ~IsNaN(s[k])}} :
            \A j \in 1..Len(s) : IsNaN(s[j]) \/ m <= s[j]

\* numpy mean of a non-empty list (NaN if an entry is NaN)
Mean(s) == IF HasNaN(s) THEN NaN ELSE Round(SumSeq(s), Len(s))

\* pandas mean(): NaN are skipped
MeanSkipNaN(s) == IF DropNaN(s) = <<>> THEN NaN ELSE Mean(DropNaN(s))

ISqrt(n) == CHOOSE r \in 0..n : r * r <= n /\ n < (r + 1) * (r + 1)

\* 1.96 * numpy std(s) / sqrt(len(s)) of a NaN-free list
HalfWidth(s) ==
    LET n  == Len(s)
        ss == n * SumSeq([i \in 1..n |-> s[i] * s[i]]) - SumSeq(s) * SumSeq(s)
    IN  IF n > 1 THEN Round(196 * ISqrt(Round(100 * ss, n * n * n)), 1000) ELSE 0

BeginDrawdown ==
    /\ pc = "dd_begin"
    /\ metrics_summary' = <<>>
    /\ driver_queue' = Unique(Column(equity_df, LAMBDA r : r.Driver))
    /\ pc' = "dd_driver"
    /\ UNCHANGED <<result, equity_df, d_df, row_idx, mdd, in_dd, trough_lap, trough_equity,
                   current_failure_type, recovery_velocities, recovery_curvatures,
                   recovery_types>>
    /\ UNCHANGED <<eqState, srState, rpState>>
    /\ UNCHANGED config

\* mutant: the detector state is initialised once, before the loop over the
\* competitors
StartDriver_NoReset ==
    /\ pc = "dd_driver"
    /\ driver_queue # <<>>
    /\ LET rows == SortedByLap(Filter(equity_df, LAMBDA r : r.Driver = Head(driver_queue)))
           Peak == cummax(Column(rows, LAMBDA r : r.ExecutionEquity))
           table == [i \in Rows(rows) |->
                        rows[i] @@ [ Peak     |-> Peak[i],
                                     Drawdown |-> Sub(rows[i].ExecutionEquity, Peak[i]) ]]
       IN  /\ d_df' = table
           /\ mdd' = MinSkipNaN(Column(table, LAMBDA r : r.Drawdown))
    /\ row_idx' = 1
    /\ pc' = "dd_scan"
    /\ UNCHANGED <<recovery_velocities, recovery_curvatures, recovery_types, in_dd,
                   trough_lap, trough_equity, current_failure_type>>
    /\ UNCHANGED <<result, equity_df, driver_queue, metrics_summary>>
    /\ UNCHANGED <<eqState, srState, rpState>>
    /\ UNCHANGED config

\* step 1 of the loop body and the initialisation of step 2
StartDriver ==
    /\ pc = "dd_driver"
    /\ driver_queue # <<>>
    /\ LET rows == SortedByLap(Filter(equity_df, LAMBDA r : r.Driver = Head(driver_queue)))
           Peak == cummax(Column(rows, LAMBDA r : r.ExecutionEquity))
           table == [i \in Rows(rows) |->
                        rows[i] @@ [ Peak     |-> Peak[i],
                                     Drawdown |-> Sub(rows[i].ExecutionEquity, Peak[i]) ]]
       IN  /\ d_df' = table
           /\ mdd' = MinSkipNaN(Column(table, LAMBDA r : r.Drawdown))
    /\ recovery_velocities' = <<>>
    /\ recovery_curvatures' = <<>>
    /\ recovery_types' = <<>>
    /\ in_dd' = FALSE
    /\ trough_lap' = 0
    /\ trough_equity' = 0
    /\ current_failure_type' = "None"
    /\ row_idx' = 1
    /\ pc' = "dd_scan"
    /\ UNCHANGED <<result, equity_df, driver_queue, metrics_summary>>
    /\ UNCHANGED <<eqState, srState, rpState>>
    /\ UNCHANGED config

\* the trough-to-exit window of an episode
recovery_segment(tbl, from_lap, end_lap) ==
    Filter(tbl, LAMBDA r : r.LapNumber >= from_lap /\ r.LapNumber <= end_lap)

\* leading coefficient of the degree-2 fit of equity against laps since the
\* trough, in units of 0.0001 s/lap^2; `failed` is what a fit on a window with a
\* missing equity value leaves: 0.0 when polyfit raised, NaN when it did not
Curvature(seg, from_lap, failed) ==
    IF Len(seg) > 2
    THEN IF HasNaN(Column(seg, LAMBDA r : r.ExecutionEquity))
         THEN failed
         ELSE LET c == polyfit(Column(seg, LAMBDA r : r.LapNumber - from_lap),
                               Column(seg, LAMBDA r : r.ExecutionEquity), 2)
              IN  Round(100 * c.num[1], c.den)
    ELSE 0

\* mutant: the episode is tagged with the failure type of its trough lap
ScanLap_TagAtTrough ==
    /\ pc = "dd_scan"
    /\ row_idx <= Len(d_df)
    /\ LET row == d_df[row_idx]
       IN  IF Lt(row.Drawdown, DRAWDOWN_ENTRY_THRESHOLD)
           THEN LET lap0  == IF ~in_dd THEN row.LapNumber ELSE trough_lap
                    eq0   == IF ~in_dd THEN row.ExecutionEquity ELSE trough_equity
                IN  /\ in_dd' = TRUE
                    /\ current_failure_type' =
                            IF ~in_dd \/ row.ExecutionEquity < eq0
                            THEN row.FailureType ELSE current_failure_type
                    /\ trough_equity' = IF row.ExecutionEquity < eq0
                                        THEN row.ExecutionEquity ELSE eq0
                    /\ trough_lap' = IF row.ExecutionEquity < eq0
                                     THEN row.LapNumber ELSE lap0
                    /\ UNCHANGED <<recovery_velocities, recovery_curvatures, recovery_types>>
           ELSE IF in_dd /\ Ge(row.Drawdown, RECOVERY_COMPLETE_THRESHOLD)
           THEN LET end_lap  == row.LapNumber
                    duration == end_lap - trough_lap
                    seg      == recovery_segment(d_df, trough_lap, end_lap)
                IN  /\ in_dd' = FALSE
                    /\ IF duration > MIN_RECOVERY_DURATION
                       THEN /\ recovery_velocities' = Append(recovery_velocities,
                                    Round(Abs(row.ExecutionEquity - trough_equity), duration))
                            /\ recovery_types' = Append(recovery_types, current_failure_type)
                            /\ \E failed \in {0, NaN} :
                                  recovery_curvatures' = Append(recovery_curvatures,
                                        Curvature(seg, trough_lap, failed))
                       ELSE UNCHANGED <<recovery_velocities, recovery_curvatures,
                                        recovery_types>>
                    /\ UNCHANGED <<trough_lap, trough_equity, current_failure_type>>
           ELSE UNCHANGED <<in_dd, trough_lap, trough_equity, current_failure_type,
                            recovery_velocities, recovery_curvatures, recovery_types>>
    /\ row_idx' = row_idx + 1
    /\ UNCHANGED <<pc, result, equity_df, driver_queue, d_df, mdd, metrics_summary>>
    /\ UNCHANGED <<eqState, srState, rpState>>
    /\ UNCHANGED config

\* step 2, one iteration of the scan over the competitor's laps
ScanLap ==
    /\ pc = "dd_scan"
    /\ row_idx <= Len(d_df)
    /\ LET row == d_df[row_idx]
       IN  IF Lt(row.Drawdown, DRAWDOWN_ENTRY_THRESHOLD)
           THEN LET lap0  == IF ~in_dd THEN row.LapNumber ELSE trough_lap
                    eq0   == IF ~in_dd THEN row.ExecutionEquity ELSE trough_equity
                IN  /\ in_dd' = TRUE
                    /\ current_failure_type' =
                            IF ~in_dd THEN row.FailureType ELSE current_failure_type
                    /\ trough_equity' = IF row.ExecutionEquity < eq0
                                        THEN row.ExecutionEquity ELSE eq0
                    /\ trough_lap' = IF row.ExecutionEquity < eq0
                                     THEN row.LapNumber ELSE lap0
                    /\ UNCHANGED <<recovery_velocities, recovery_curvatures, recovery_types>>
           ELSE IF in_dd /\ Ge(row.Drawdown, RECOVERY_COMPLETE_THRESHOLD)
           THEN LET end_lap  == row.LapNumber
                    duration == end_lap - trough_lap
                    seg      == recovery_segment(d_df, trough_lap, end_lap)
                IN  /\ in_dd' = FALSE
                    /\ IF duration > MIN_RECOVERY_DURATION
                       THEN /\ recovery_velocities' = Append(recovery_velocities,
                                    Round(Abs(row.ExecutionEquity - trough_equity), duration))
                            /\ recovery_types' = Append(recovery_types, current_failure_type)
                            /\ \E failed \in {0, NaN} :
                                  recovery_curvatures' = Append(recovery_curvatures,
                                        Curvature(seg, trough_lap, failed))
                       ELSE UNCHANGED <<recovery_velocities, recovery_curvatures,
                                        recovery_types>>
                    /\ UNCHANGED <<trough_lap, trough_equity, current_failure_type>>
           ELSE UNCHANGED <<in_dd, trough_lap, trough_equity, current_failure_type,
                            recovery_velocities, recovery_curvatures, recovery_types>>
    /\ row_idx' = row_idx + 1
    /\ UNCHANGED <<pc, result, equity_df, driver_queue, d_df, mdd, metrics_summary>>
    /\ UNCHANGED <<eqState, srState, rpState>>
    /\ UNCHANGED config

\* mutant: the episodes are not selected by their failure type
relevant_rates_AnyType(velocities, types, r_type) == velocities

\* velocities of the episodes tagged with one failure type
relevant_rates(velocities, types, r_type) ==
    LET idx == SelectSeq([i \in 1..Len(velocities) |-> i], LAMBDA i : types[i] = r_type)
    IN  [k \in 1..Len(idx) |-> velocities[idx[k]]]

\* step 4: per-category resilience, with the traffic value recomputed
type_recovery(velocities, types) ==
    LET ByType(r_type) ==
            IF relevant_rates(velocities, types, r_type) = <<>> THEN NaN
            ELSE Mean(relevant_rates(velocities, types, r_type))
    IN  [ Major       |-> ByType("Major Incident"),
          Operational |-> ByType("Operational"),
          Traffic     |-> IF relevant_rates(velocities, types, "Traffic") # <<>>
                          THEN Mean(relevant_rates(velocities, types, "Traffic"))
                          ELSE IF velocities # <<>> THEN Mean(velocities) ELSE NaN ]

\* step 3: mean equity change of the restart laps
avg_restart_delta(tbl) ==
    LET restart_laps == Filter(tbl, LAMBDA r : r.RestartLap)
    IN  IF restart_laps # <<>>
        THEN MeanSkipNaN(Column(restart_laps, LAMBDA r : r.EquityChange))
        ELSE 0

RecoveryShape(c) ==
    IF Lt(150, c) THEN "V-Shape" ELSE IF Lt(c, -150) THEN "U-Shape" ELSE "Linear"

\* the row appended to metrics_summary
Summary(driver, tbl, max_dd, velocities, curvatures, types) ==
    LET tr == type_recovery(velocities, types)
        rv_mean == IF velocities # <<>> THEN Mean(velocities) ELSE 0
        half == IF velocities # <<>> THEN HalfWidth(velocities) ELSE 0
        avg_curvature == IF velocities # <<>> /\ curvatures # <<>>
                         THEN Mean(curvatures) ELSE 0
    IN  ("Driver" :> driver)
        @@ ("Max Drawdown (s)" :> max_dd)
        @@ ("Reset Velocity (s/Lap)" :> rv_mean)
        @@ ("Reset Velocity CI Lower" :> rv_mean - half)
        @@ ("Reset Velocity CI Upper" :> rv_mean + half)
        @@ ("Recovery Curvature" :> avg_curvature)
        @@ ("Recovery Shape" :> RecoveryShape(avg_curvature))
        @@ ("Restart Delta (s)" :> avg_restart_delta(tbl))
        @@ ("Major Incident Resilience" :> tr.Major)
        @@ ("Driver Error Resilience" :> tr.Major)
        @@ ("Traffic Resilience" :> tr.Traffic)
        @@ ("Operational Resilience" :> tr.Operational)
        @@ ("Spin/Off-Track Resilience" :> 100)
        @@ ("Lockup/Error Resilience" :> IF ~IsNaN(tr.Major) THEN tr.Major ELSE 100)

\* mutant: an episode still open after the last lap is finalized on that lap
SummarizeDriver_ClosingOpenEpisode ==
    /\ pc = "dd_scan"
    /\ row_idx > Len(d_df)
    /\ LET last == d_df[Len(d_df)]
           closed == in_dd /\ last.LapNumber > trough_lap
           rate == Round(Abs(last.ExecutionEquity - trough_equity),
                         last.LapNumber - trough_lap)
       IN  metrics_summary' = Append(metrics_summary,
                Summary(Head(driver_queue), d_df, mdd,
                        IF closed THEN Append(recovery_velocities, rate)
                                  ELSE recovery_velocities,
                        IF closed THEN Append(recovery_curvatures, 0)
                                  ELSE recovery_curvatures,
                        IF closed THEN Append(recovery_types, current_failure_type)
                                  ELSE recovery_types))
    /\ driver_queue' = Tail(driver_queue)
    /\ pc' = "dd_driver"
    /\ UNCHANGED <<result, equity_df, d_df, row_idx, mdd, in_dd, trough_lap, trough_equity,
                   current_failure_type, recovery_velocities, recovery_curvatures,
                   recovery_types>>
    /\ UNCHANGED <<eqState, srState, rpState>>
    /\ UNCHANGED config

\* steps 3 and 4 and the append that close the loop body
SummarizeDriver ==
    /\ pc = "dd_scan"
    /\ row_idx > Len(d_df)
    /\ metrics_summary' = Append(metrics_summary,
            Summary(Head(driver_queue), d_df, mdd, recovery_velocities,
                    recovery_curvatures, recovery_types))
    /\ driver_queue' = Tail(driver_queue)
    /\ pc' = "dd_driver"
    /\ UNCHANGED <<result, equity_df, d_df, row_idx, mdd, in_dd, trough_lap, trough_equity,
                   current_failure_type, recovery_velocities, recovery_curvatures,
                   recovery_types>>
    /\ UNCHANGED <<eqState, srState, rpState>>
    /\ UNCHANGED config

\* return pd.DataFrame(metrics_summary)
ReturnMetrics ==
    /\ pc = "dd_driver"
    /\ driver_queue = <<>>
    /\ result' = metrics_summary
    /\ pc' = "done"
    /\ UNCHANGED ddState
    /\ UNCHANGED <<eqState, srState>>
    /\ UNCHANGED config

InitDD ==
    /\ config = ShippedConfig
    /\ equity_df \in EquityTables
    /\ pc = "dd_begin"
    /\ result = None
    /\ driver_queue = <<>>
    /\ d_df = <<>>
    /\ row_idx = 1
    /\ mdd = NaN
    /\ in_dd = FALSE
    /\ trough_lap = 0
    /\ trough_equity = 0
    /\ current_failure_type = "None"
    /\ recovery_velocities = <<>>
    /\ recovery_curvatures = <<>>
    /\ recovery_types = <<>>
    /\ metrics_summary = <<>>
    /\ SeasonIdle
    /\ EquityIdle
    /\ RatioIdle

NextDD ==
    \/ BeginDrawdown
    \/ StartDriver
    \/ ScanLap
    \/ SummarizeDriver
    \/ ReturnMetrics

SpecDD == InitDD /\ [][NextDD]_vars

----------------------------------------------------------------------------
(* Properties of the drawdown detector *)

Scanning == pc = "dd_scan" /\ d_df # <<>>

\* the summary SummarizeDriver has just appended for the scanned competitor
Summarized == pc = "dd_driver" /\ metrics_summary # <<>>

LastSummary == metrics_summary[Len(metrics_summary)]

\* equity values of the competitor's laps 1..i that are numbers
EquityUpTo(i) == {d_df[j].ExecutionEquity : j \in {k \in 1..i : ~IsNaN(d_df[k].ExecutionEquity)}}

\* C3: for every competitor and lap, Drawdown = ExecutionEquity - running
\* maximum of ExecutionEquity up to and including that lap, it is <= 0, and
\* 'Max Drawdown (s)' is the minimum of these values over the race (<= 0).
C3_DrawdownNonPositive ==
    /\ Scanning =>
          \A i \in Rows(d_df) :
              /\ ~IsNaN(d_df[i].Drawdown)
              /\ d_df[i].Drawdown <= 0
              /\ \E m \in EquityUpTo(i) :
                    /\ \A e \in EquityUpTo(i) : e <= m
                    /\ d_df[i].Drawdown = d_df[i].ExecutionEquity - m
    /\ Summarized =>
          /\ ~IsNaN(LastSummary["Max Drawdown (s)"])
          /\ LastSummary["Max Drawdown (s)"] <= 0
          /\ \E i \in Rows(d_df) : d_df[i].Drawdown = LastSummary["Max Drawdown (s)"]
          /\ \A i \in Rows(d_df) : LastSummary["Max Drawdown (s)"] <= d_df[i].Drawdown

\* no lap of the summarized competitor has a Drawdown below the entry threshold
NeverBelowEntry == \A i \in Rows(d_df) : ~Lt(d_df[i].Drawdown, -10)

\* C19: a competitor whose Drawdown is never below -0.1 produces no episode:
\* 'Max Drawdown (s)' is the minimum of its Drawdown values and is >= -0.1,
\* 'Reset Velocity (s/Lap)' and both confidence bounds are 0.0, and the three
\* per-category resilience values are NaN.
C19_NoEpisodes ==
    (Summarized /\ NeverBelowEntry) =>
        /\ ~IsNaN(LastSummary["Max Drawdown (s)"])
        /\ LastSummary["Max Drawdown (s)"] >= -10
        /\ \E i \in Rows(d_df) : d_df[i].Drawdown = LastSummary["Max Drawdown (s)"]
        /\ \A i \in Rows(d_df) :
              IsNaN(d_df[i].Drawdown) \/ LastSummary["Max Drawdown (s)"] <= d_df[i].Drawdown
        /\ LastSummary["Reset Velocity (s/Lap)"] = 0
        /\ LastSummary["Reset Velocity CI Lower"] = 0
        /\ LastSummary["Reset Velocity CI Upper"] = 0
        /\ IsNaN(LastSummary["Major Incident Resilience"])
        /\ IsNaN(LastSummary["Traffic Resilience"])
        /\ IsNaN(LastSummary["Operational Resilience"])

\* the lap the scan visits in this step
ScannedRow == d_df[row_idx]

\* C4: once In-Drawdown the detector stays In-Drawdown on every lap whose
\* Drawdown is below -0.05, laps in the band [-0.1, -0.05) included, and returns
\* to Normal only on, and on, the first lap with Drawdown >= -0.05; while Normal
\* it enters only on a lap with Drawdown < -0.1, so a lap in the band does not
\* start an episode.
C4_Hysteresis ==
    [][ (pc = "dd_scan" /\ row_idx' = row_idx + 1) =>
            LET dd == ScannedRow.Drawdown
            IN  /\ (in_dd /\ Lt(dd, -5)) => in_dd'
                /\ (in_dd /\ Ge(dd, -5)) => ~in_dd'
                /\ (in_dd /\ ~in_dd') => Ge(dd, -5)
                /\ (~in_dd /\ Ge(dd, -10)) => ~in_dd'
                /\ (~in_dd /\ Lt(dd, -10)) => in_dd'
                /\ (~in_dd /\ in_dd') => Lt(dd, -10) ]_vars

\* a lap in the band has just been scanned while In-Drawdown, after an earlier
\* lap in the band was scanned while Normal
C4_Witness ==
    /\ Scanning
    /\ row_idx > 4
    /\ in_dd
    /\ Ge(d_df[row_idx - 1].Drawdown, -10) /\ Lt(d_df[row_idx - 1].Drawdown, -5)
    /\ Lt(d_df[row_idx - 2].Drawdown, -10)
    /\ Ge(d_df[row_idx - 3].Drawdown, -10) /\ Lt(d_df[row_idx - 3].Drawdown, -5)
    /\ \A i \in 1..(row_idx - 3) : ~Lt(d_df[i].Drawdown, -10)

\* velocities of the scanned competitor's finalized episodes of one category
EpisodeRates(cat) ==
    LET idx == SelectSeq([i \in 1..Len(recovery_types) |-> i],
                         LAMBDA i : recovery_types[i] = cat)
    IN  [k \in 1..Len(idx) |-> recovery_velocities[idx[k]]]

CategoryMean(cat) ==
    IF EpisodeRates(cat) = <<>> THEN NaN
    ELSE Round(SumSeq(EpisodeRates(cat)), Len(EpisodeRates(cat)))

Between(a, b) == {j \in Rows(d_df) : a <= j /\ j <= b}

\* the row on which the episode that is open before row i was entered: the
\* first row below the entry threshold after the last row at or above the exit
\* threshold
EntryRow(i) ==
    LET normal == {j \in 1..(i - 1) : Ge(d_df[j].Drawdown, -5)}
        below  == {j \in 1..(i - 1) : /\ Lt(d_df[j].Drawdown, -10)
                                      /\ \A k \in normal : k < j}
    IN  CHOOSE j \in below : \A k \in below : j <= k

\* C25: on the lap E where the detector leaves In-Drawdown, the trough equity
\* is the minimum equity of the laps from entry to exit and T a lap that has
\* it; one velocity |equity at E - trough equity| / (E - T), one type and one
\* curvature are recorded if E - T > 1 and nothing is recorded if E - T = 1;
\* either way the detector is Normal afterwards, and nothing is recorded on
\* any other lap.
C25_EpisodeFinalized ==
    [][ (pc = "dd_scan" /\ row_idx' = row_idx + 1) =>
            LET E == ScannedRow.LapNumber
                T == trough_lap
                episode == {j \in Between(EntryRow(row_idx), row_idx) :
                                ~IsNaN(d_df[j].ExecutionEquity)}
                recovered == Abs(ScannedRow.ExecutionEquity - trough_equity)
                recorded(old, new) == Len(new) = Len(old) + 1
                                        /\ SubSeq(new, 1, Len(old)) = old
            IN  IF in_dd /\ ~in_dd'
                THEN /\ \A j \in episode : trough_equity <= d_df[j].ExecutionEquity
                     /\ \E j \in episode : /\ d_df[j].LapNumber = T
                                           /\ d_df[j].ExecutionEquity = trough_equity
                     /\ E - T >= 1
                     /\ IF E - T > 1
                        THEN /\ recorded(recovery_velocities, recovery_velocities')
                             /\ recorded(recovery_types, recovery_types')
                             /\ recorded(recovery_curvatures, recovery_curvatures')
                             /\ LET v == recovery_velocities'[Len(recovery_velocities')]
                                IN  2 * Abs(v * (E - T) - recovered) <= E - T
                        ELSE UNCHANGED <<recovery_velocities, recovery_types,
                                         recovery_curvatures>>
                ELSE UNCHANGED <<recovery_velocities, recovery_types, recovery_curvatures>>
      ]_vars

\* an episode whose trough came a lap after its entry has just been finalized
\* three laps after the trough, after an earlier drawdown that was left one
\* lap after its trough and recorded nothing
C25_Witness ==
    /\ Scanning
    /\ row_idx > 8
    /\ ~in_dd
    /\ Ge(d_df[row_idx - 1].Drawdown, -5)
    /\ d_df[row_idx - 1].LapNumber - trough_lap = 3
    /\ Lt(d_df[row_idx - 5].Drawdown, -10)
    /\ d_df[row_idx - 5].ExecutionEquity > trough_equity
    /\ Ge(d_df[row_idx - 6].Drawdown, -5)
    /\ Lt(d_df[row_idx - 7].Drawdown, -10)
    /\ Ge(d_df[row_idx - 8].Drawdown, -5)
    /\ Len(recovery_velocities) = 1
    /\ recovery_velocities[1] = 150

\* C26: while an episode is open, and when it is finalized, its tag is the
\* FailureType of the lap on which the detector entered In-Drawdown, whatever
\* the FailureType of its later laps; 'Reset Velocity (s/Lap)' is the mean over
\* all finalized episodes, those tagged 'None' included, while the Major
\* Incident and Operational resilience values are means over the episodes
\* with that tag only.
C26_TaggedAtEntry ==
    /\ [](Scanning /\ in_dd =>
            current_failure_type = d_df[EntryRow(row_idx)].FailureType)
    /\ [][ (pc = "dd_scan" /\ row_idx' = row_idx + 1
                /\ Len(recovery_types') > Len(recovery_types)) =>
              recovery_types'[Len(recovery_types')]
                  = d_df[EntryRow(row_idx)].FailureType ]_vars
    /\ [](Summarized =>
            LET n == Len(recovery_velocities)
            IN  /\ n > 0 => 2 * Abs(n * LastSummary["Reset Velocity (s/Lap)"]
                                        - SumSeq(recovery_velocities)) <= n
                /\ LastSummary["Major Incident Resilience"] = CategoryMean("Major Incident")
                /\ LastSummary["Operational Resilience"] = CategoryMean("Operational"))

\* a competitor whose only finalized episode was entered on a lap of type
\* 'None' and had its trough on a Major Incident lap has been summarized
C26_Witness ==
    /\ Summarized
    /\ recovery_types = <<"None">>
    /\ \E i \in Rows(d_df) :
          /\ d_df[i].LapNumber = trough_lap
          /\ d_df[i].FailureType = "Major Incident"
          /\ d_df[i - 1].FailureType = "None"
          /\ Lt(d_df[i - 1].Drawdown, -10)
    /\ LastSummary["Reset Velocity (s/Lap)"] = 150
    /\ IsNaN(LastSummary["Major Incident Resilience"])
    /\ IsNaN(LastSummary["Operational Resilience"])

\* rows on which the scanned competitor left a drawdown: at or above the exit
\* threshold, after a row below the entry threshold with no such row between
ExitRows ==
    {i \in Rows(d_df) :
        /\ Ge(d_df[i].Drawdown, -5)
        /\ \E j \in 1..(i - 1) :
              /\ Lt(d_df[j].Drawdown, -10)
              /\ \A k \in (j + 1)..(i - 1) : ~Ge(d_df[k].Drawdown, -5)}

\* C28: a competitor whose race ends In-Drawdown has no more recorded episodes
\* than laps on which it left a drawdown, so the open episode adds no
\* velocity, curvature or type; if it never left a drawdown, 'Reset Velocity
\* (s/Lap)', its bounds and the curvature are 0.0 and the three resilience
\* values NaN.  'Max Drawdown (s)' is the minimum Drawdown of the race, at most
\* the Drawdown of the open episode's trough lap, and equal to it when the
\* open episode is the only drawdown.
C28_OpenEpisodeDropped ==
    (Summarized /\ in_dd) =>
        /\ Len(recovery_velocities) <= Cardinality(ExitRows)
        /\ Len(recovery_curvatures) = Len(recovery_velocities)
        /\ Len(recovery_types) = Len(recovery_velocities)
        /\ \A i \in Rows(d_df) :
              (d_df[i].LapNumber >= trough_lap) => ~Ge(d_df[i].Drawdown, -5)
        /\ \A i \in Rows(d_df) :
              IsNaN(d_df[i].Drawdown) \/ LastSummary["Max Drawdown (s)"] <= d_df[i].Drawdown
        /\ \E i \in Rows(d_df) :
              /\ d_df[i].LapNumber = trough_lap
              /\ d_df[i].ExecutionEquity = trough_equity
              /\ Lt(d_df[i].Drawdown, -10)
              /\ LastSummary["Max Drawdown (s)"] <= d_df[i].Drawdown
              /\ ExitRows = {} => LastSummary["Max Drawdown (s)"] = d_df[i].Drawdown
        /\ ExitRows = {} =>
              /\ recovery_velocities = <<>>
              /\ LastSummary["Reset Velocity (s/Lap)"] = 0
              /\ LastSummary["Reset Velocity CI Lower"] = 0
              /\ LastSummary["Reset Velocity CI Upper"] = 0
              /\ LastSummary["Recovery Curvature"] = 0
              /\ IsNaN(LastSummary["Major Incident Resilience"])
              /\ IsNaN(LastSummary["Traffic Resilience"])
              /\ IsNaN(LastSummary["Operational Resilience"])

\* a competitor whose only drawdown was entered on lap 2, was deepest on lap 3
\* and was still open three laps after the trough has been summarized
C28_Witness ==
    /\ Summarized
    /\ in_dd
    /\ ExitRows = {}
    /\ Len(d_df) >= 4
    /\ Lt(d_df[2].Drawdown, -10)
    /\ trough_lap = 3
    /\ LastSummary["Max Drawdown (s)"] = d_df[3].Drawdown
    /\ LastSummary["Reset Velocity (s/Lap)"] = 0

\* competitor's table alone; episodes holds <<trough lap, exit lap>> of every
\* finalized episode
RECURSIVE SoloScan(_, _)
SoloScan(tbl, n) ==
    IF n = 0
    THEN [ in_dd |-> FALSE, trough_lap |-> 0, trough_equity |-> 0,
           failure_type |-> "None", velocities |-> <<>>, types |-> <<>>,
           episodes |-> <<>> ]
    ELSE LET s   == SoloScan(tbl, n - 1)
             row == tbl[n]
             entered == IF s.in_dd THEN s
                        ELSE [s EXCEPT !.in_dd = TRUE,
                                       !.trough_lap = row.LapNumber,
                                       !.trough_equity = row.ExecutionEquity,
                                       !.failure_type = row.FailureType]
         IN  IF Lt(row.Drawdown, -10)
             THEN IF row.ExecutionEquity < entered.trough_equity
                  THEN [entered EXCEPT !.trough_lap = row.LapNumber,
                                       !.trough_equity = row.ExecutionEquity]
                  ELSE entered
             ELSE IF s.in_dd /\ Ge(row.Drawdown, -5)
             THEN IF row.LapNumber - s.trough_lap > 1
                  THEN [s EXCEPT !.in_dd = FALSE,
                                 !.velocities = Append(@,
                                     Round(Abs(row.ExecutionEquity - s.trough_equity),
                                           row.LapNumber - s.trough_lap)),
                                 !.types = Append(@, s.failure_type),
                                 !.episodes = Append(@, <<s.trough_lap, row.LapNumber>>)]
                  ELSE [s EXCEPT !.in_dd = FALSE]
             ELSE s

\* rows of the table handed to the function that belong to one competitor
OwnRows(driver) == {i \in Rows(equity_df) : equity_df[i].Driver = driver}

\* C24: the detector state while a competitor is scanned, and the summary the
\* competitor gets, are those of a scan of that competitor's own laps from the
\* initial state, whatever competitors were scanned before it and however
\* their races ended.
C24_IndependentCompetitors ==
    /\ pc = "dd_scan" =>
          LET solo == SoloScan(d_df, row_idx - 1)
          IN  /\ Len(d_df) = Cardinality(OwnRows(Head(driver_queue)))
              /\ \A i \in Rows(d_df) :
                    \E j \in OwnRows(Head(driver_queue)) :
                        /\ equity_df[j].LapNumber = d_df[i].LapNumber
                        /\ equity_df[j].ExecutionEquity = d_df[i].ExecutionEquity
                        /\ equity_df[j].FailureType = d_df[i].FailureType
              /\ in_dd = solo.in_dd
              /\ trough_lap = solo.trough_lap
              /\ trough_equity = solo.trough_equity
              /\ current_failure_type = solo.failure_type
              /\ recovery_velocities = solo.velocities
              /\ recovery_types = solo.types
              /\ Len(recovery_curvatures) = Len(solo.episodes)
    /\ Summarized =>
          LET solo == SoloScan(d_df, Len(d_df))
          IN  /\ \A k \in 1..Len(recovery_curvatures) :
                    \E failed \in {0, NaN} :
                        recovery_curvatures[k] =
                            Curvature(recovery_segment(d_df, solo.episodes[k][1],
                                                       solo.episodes[k][2]),
                                      solo.episodes[k][1], failed)
              /\ LastSummary =
                    Summary(d_df[1].Driver, d_df,
                            MinSkipNaN(Column(d_df, LAMBDA r : r.Drawdown)),
                            solo.velocities, recovery_curvatures, solo.types)

\* the competitor summarized before the last one ended its race In-Drawdown
PreviousEndedInDrawdown ==
    /\ Len(metrics_summary) = 2
    /\ LET own == OwnRows(metrics_summary[1]["Driver"])
       IN  \E last \in own :
              /\ \A i \in own : equity_df[i].LapNumber <= equity_df[last].LapNumber
              /\ \E i \in own :
                    equity_df[last].ExecutionEquity < equity_df[i].ExecutionEquity - 10

\* the second competitor fell into a drawdown and left it one lap later, so it
\* reports no episode, after a competitor with a recorded episode whose race
\* ended In-Drawdown
C24_Witness ==
    /\ Summarized
    /\ PreviousEndedInDrawdown
    /\ metrics_summary[1]["Reset Velocity (s/Lap)"] > 0
    /\ ~in_dd
    /\ Lt(LastSummary["Max Drawdown (s)"], -10)
    /\ LastSummary["Reset Velocity (s/Lap)"] = 0
    /\ IsNaN(LastSummary["Traffic Resilience"])

----------------------------------------------------------------------------
(* estimate_traffic_threshold_dynamically on lap tables of about 50 samples *)

\* laps that are not valid samples: pit laps and caution laps with a gap inside
\* the valid range, gaps on the limits 0.1 and 9.0, and the 10.0 sentinel
NoiseKinds == {"pit", "caution", "low", "high", "sentinel"}

NoiseRow(kind) ==
    [ IsPit           |-> kind = "pit",
      IsSC            |-> kind = "caution",
      IntervalToAhead |-> IF kind = "low" THEN 10
                          ELSE IF kind = "high" THEN 900
                          ELSE IF kind = "sentinel" THEN 1000
                          ELSE 50 ]

SampleRow(gap) == [IsPit |-> FALSE, IsSC |-> FALSE, IntervalToAhead |-> gap]

\* n valid gaps base + step, base + 2 step, .. in rising or falling table order,
\* behind NoiseRows laps of each kind in noise
GapTable(n, base, step, rising, noise) ==
    LET kinds == SelectSeq(<<"pit", "caution", "low", "high", "sentinel">>,
                           LAMBDA k : k \in noise)
    IN  [i \in 1..(NoiseRows * Len(kinds)) |-> NoiseRow(kinds[(i - 1) \div NoiseRows + 1])]
        \o [i \in 1..n |-> SampleRow(base + step * (IF rising THEN i ELSE n + 1 - i))]

GapTables ==
    { GapTable(n, base, step, rising, noise) :
        n \in (50 - GapSpread)..(50 + GapSpread),
        base \in {20, 100, 200, 400},
        step \in {0, 2, 4},
        rising \in BOOLEAN,
        noise \in {{}, NoiseKinds} \cup {{k} : k \in NoiseKinds} }

CallEstimateTrafficThreshold ==
    /\ pc = "traffic_call"
    /\ result' = estimate_traffic_threshold_dynamically(all_laps)
    /\ pc' = "traffic_return"
    /\ UNCHANGED <<eqState, ddState, srState>>
    /\ UNCHANGED config

InitTraffic ==
    /\ config = ShippedConfig
    /\ all_laps \in GapTables
    /\ pc = "traffic_call"
    /\ result = None
    /\ session = None
    /\ lap_nums = <<>>
    /\ traffic_threshold = NaN
    /\ benchmark_laps = <<>>
    /\ groups = <<>>
    /\ trend_models = <<>>
    /\ avg_pit_loss = NaN
    /\ drivers_left = <<>>
    /\ equity_curves = <<>>
    /\ DrawdownIdle
    /\ RatioIdle

NextTraffic == CallEstimateTrafficThreshold

SpecTraffic == InitTraffic /\ [][NextTraffic]_vars

\* rows of the table that are valid samples
ValidSamples ==
    {i \in Rows(all_laps) :
        /\ ~all_laps[i].IsPit /\ ~all_laps[i].IsSC
        /\ all_laps[i].IntervalToAhead > 10 /\ all_laps[i].IntervalToAhead < 900}

\* v is the k-th smallest gap of the valid samples
IsRank(v, k) ==
    /\ Cardinality({i \in ValidSamples : all_laps[i].IntervalToAhead < v}) < k
    /\ Cardinality({i \in ValidSamples : all_laps[i].IntervalToAhead <= v}) >= k

\* C8: estimate_traffic_threshold_dynamically returns a value in [0.8, 3.0]:
\* 1.3 with fewer than 50 valid samples, else the 50th percentile of the valid
\* samples (the mean of the two middle ranks) clamped into [0.8, 3.0]; laps
\* outside the valid set do not influence the result.
C8_TrafficThreshold ==
    pc = "traffic_return" =>
        LET n == Cardinality(ValidSamples)
        IN  /\ result >= 80 /\ result <= 300
            /\ n < 50 => result = 130
            /\ n >= 50 =>
                  \E i, j \in ValidSamples :
                      LET lo == all_laps[i].IntervalToAhead
                          hi == all_laps[j].IntervalToAhead
                      IN  /\ IsRank(lo, (n + 1) \div 2)
                          /\ IsRank(hi, n \div 2 + 1)
                          /\ result = IF lo + hi < 2 * 80 THEN 80
                                      ELSE IF lo + hi > 2 * 300 THEN 300
                                      ELSE (lo + hi) \div 2
                          /\ (lo + hi) % 2 = 0

\* exactly 50 valid samples behind laps of every other kind gave a percentile
\* strictly inside the clamp
C8_Witness ==
    /\ pc = "traffic_return"
    /\ Cardinality(ValidSamples) = 50
    /\ Len(all_laps) > 50
    /\ \E i \in Rows(all_laps) : all_laps[i].IsPit
    /\ \E i \in Rows(all_laps) : all_laps[i].IsSC
    /\ \E i \in Rows(all_laps) : all_laps[i].IntervalToAhead = 1000
    /\ result > 80 /\ result < 300 /\ result # 130

----------------------------------------------------------------------------
(* driver_sharpe_ratio.py: the benchmark of calculate_driver_sharpe_ratio *)

\* Laps.pick_quicklaps(): laps faster than 107% of the fastest lap of the table
pick_quicklaps(tbl) ==
    LET times == DropNaN(Column(tbl, LAMBDA r : r.LapTime))
    IN  IF times = <<>> THEN <<>>
        ELSE Filter(tbl, LAMBDA r : /\ ~IsNaN(r.LapTime)
                                    /\ 100 * r.LapTime < 107 * Kth(times, 1))

\* quick green-flag laps, their lap time in seconds and the keys to fit
LoadQuickLaps ==
    /\ pc = "sr_load"
    /\ LET green == Filter(pick_quicklaps(session.laps), LAMBDA r : r.TrackStatus = "1")
       IN  IF green = <<>>
           THEN /\ result' = None
                /\ pc' = "sr_done"
                /\ UNCHANGED srState
           ELSE /\ laps' = [i \in Rows(green) |->
                        green[i] @@ [LapTimeSeconds |-> green[i].LapTime]]
                /\ sr_groups' = Unique(Column(green, LAMBDA r : <<r.Stint, r.Compound>>))
                /\ sr_trend_models' = <<>>
                /\ pc' = "sr_fit"
                /\ UNCHANGED <<result, srLoop>>
    /\ UNCHANGED <<eqState, ddState>>
    /\ UNCHANGED config

\* the model of one key: median below 5 laps, else the degree-1 fit
TrendModel(group_laps) ==
    IF Len(group_laps) < 5
    THEN <<"median", Median(Column(group_laps, LAMBDA r : r.LapTimeSeconds))>>
    ELSE <<"regression", polyfit(Column(group_laps, LAMBDA r : r.LapNumber),
                                 Column(group_laps, LAMBDA r : r.LapTimeSeconds), 1)>>

\* one iteration of the loop over (stint, compound) keys
FitTrend ==
    /\ pc = "sr_fit"
    /\ sr_groups # <<>>
    /\ sr_trend_models' = sr_trend_models @@
            (Head(sr_groups) :> TrendModel(GroupOf(laps, Head(sr_groups))))
    /\ sr_groups' = Tail(sr_groups)
    /\ UNCHANGED <<pc, result, laps, srLoop>>
    /\ UNCHANGED <<eqState, ddState>>
    /\ UNCHANGED config

calculate_benchmark(row, models) ==
    IF <<row.Stint, row.Compound>> \in DOMAIN models
    THEN LET model == models[<<row.Stint, row.Compound>>]
         IN  IF model[1] = "median" THEN model[2] ELSE polyval(model[2], row.LapNumber)
    ELSE NaN

\* benchmark time and delta of every lap; laps without a delta are dropped
ApplyBenchmark ==
    /\ pc = "sr_fit"
    /\ sr_groups = <<>>
    /\ LET with_delta == [i \in Rows(laps) |->
                laps[i] @@
                [ BenchmarkTime |-> calculate_benchmark(laps[i], sr_trend_models),
                  LapTimeDelta  |-> Sub(laps[i].LapTimeSeconds,
                                        calculate_benchmark(laps[i], sr_trend_models)) ]]
       IN  laps' = Filter(with_delta, LAMBDA r : ~IsNaN(r.LapTimeDelta))
    /\ driver_analysis' = <<>>
    /\ drivers' = session.drivers
    /\ pc' = "sr_drivers"
    /\ UNCHANGED <<result, sr_groups, sr_trend_models, stint_queue, stint_sharpe_ratios,
                   stint_sortino_ratios, stint_weights, stint_mean_deltas, stint_std_devs,
                   stint_downside_devs>>
    /\ UNCHANGED <<eqState, ddState>>
    /\ UNCHANGED config

----------------------------------------------------------------------------
(* driver_sharpe_ratio.py: the per-driver analysis.  Deltas are in 0.01 s,
   means in 0.0001 s, standard deviations in 0.001 s, ratios in 0.0001. *)

\* floor of the square root, by bisection of lo..hi
RECURSIVE SqrtIn(_, _, _)
SqrtIn(n, lo, hi) ==
    IF lo >= hi THEN lo
    ELSE LET mid == (lo + hi + 1) \div 2
         IN  IF mid * mid <= n THEN SqrtIn(n, mid, hi) ELSE SqrtIn(n, lo, mid - 1)

Sqrt(n) == SqrtIn(n, 0, IF n < 46340 THEN n ELSE 46340)

\* n * sum(x^2) - sum(x)^2 = n (n - 1) * sample variance
VarNumer(s) == Len(s) * SumSeq([i \in 1..Len(s) |-> s[i] * s[i]]) - SumSeq(s) * SumSeq(s)

\* Series.mean() of a non-empty series
SeriesMean(s) == Round(100 * SumSeq(s), Len(s))

\* Series.std(): the sample standard deviation, NaN for fewer than two values
SeriesStd(s) ==
    IF Len(s) < 2 THEN NaN ELSE Sqrt((100 * VarNumer(s)) \div (Len(s) * (Len(s) - 1)))

\* std > 1e-6: false for NaN; values on the 0.01 s grid have a standard deviation
\* of 0 or of more than 1e-6
AboveEps(s) == Len(s) >= 2 /\ VarNumer(s) > 0

\* -mean_delta / deviation of the series dev
NegMeanOver(s, dev) == Round((0 - SumSeq(s)) * 100000, Len(s) * SeriesStd(dev))

\* mutant: the mean delta is not negated
sharpe_ratio_NotNegated(deltas) ==
    IF AboveEps(deltas) THEN 0 - NegMeanOver(deltas, deltas) ELSE 0

sharpe_ratio(deltas) ==
    IF AboveEps(deltas) THEN NegMeanOver(deltas, deltas) ELSE 0

\* mutant: the downside subset holds the deltas at or above the mean
downside_deltas_AtOrAbove(deltas) ==
    SelectSeq(deltas, LAMBDA x : Len(deltas) * x >= SumSeq(deltas))

\* deltas strictly greater than the mean of the series
downside_deltas(deltas) ==
    SelectSeq(deltas, LAMBDA x : Len(deltas) * x > SumSeq(deltas))

sortino_ratio(deltas) ==
    IF downside_deltas(deltas) # <<>>
    THEN IF AboveEps(downside_deltas(deltas))
         THEN NegMeanOver(deltas, downside_deltas(deltas))
         ELSE 0
    ELSE 0

\* mutant: the plain average of the values
WeightedAverage_Unweighted(values, weights) ==
    IF HasNaN(values) THEN NaN ELSE Round(SumSeq(values), Len(values))

\* np.average(values, weights=weights)
WeightedAverage(values, weights) ==
    IF HasNaN(values) THEN NaN
    ELSE Round(SumSeq([i \in 1..Len(values) |-> values[i] * weights[i]]), SumSeq(weights))

DriverLaps(driver_number) == Filter(laps, LAMBDA r : r.DriverNumber = driver_number)

StintDeltas(driver_number, stint_number) ==
    Column(Filter(DriverLaps(driver_number), LAMBDA r : r.Stint = stint_number),
           LAMBDA r : r.LapTimeDelta)

\* the head of the driver loop: a driver without laps is skipped
NextDriver ==
    /\ pc = "sr_drivers"
    /\ drivers # <<>>
    /\ IF DriverLaps(Head(drivers)) = <<>>
       THEN /\ drivers' = Tail(drivers)
            /\ UNCHANGED <<pc, stint_queue>>
       ELSE /\ stint_queue' = Unique(Column(DriverLaps(Head(drivers)), LAMBDA r : r.Stint))
            /\ pc' = "sr_stints"
            /\ UNCHANGED drivers
    /\ stint_sharpe_ratios' = <<>>
    /\ stint_sortino_ratios' = <<>>
    /\ stint_weights' = <<>>
    /\ stint_mean_deltas' = <<>>
    /\ stint_std_devs' = <<>>
    /\ UNCHANGED <<result, laps, sr_groups, sr_trend_models, stint_downside_devs,
                   driver_analysis>>
    /\ UNCHANGED <<eqState, ddState>>
    /\ UNCHANGED config

\* one iteration of the stint loop
AnalyzeStint ==
    /\ pc = "sr_stints"
    /\ stint_queue # <<>>
    /\ LET deltas == StintDeltas(Head(drivers), Head(stint_queue))
       IN  IF Len(deltas) < 3
           THEN UNCHANGED <<stint_sharpe_ratios, stint_sortino_ratios, stint_weights,
                            stint_mean_deltas, stint_std_devs>>
           ELSE /\ stint_sharpe_ratios' = Append(stint_sharpe_ratios, sharpe_ratio(deltas))
                /\ stint_sortino_ratios' = Append(stint_sortino_ratios, sortino_ratio(deltas))
                /\ stint_weights' = Append(stint_weights, Len(deltas))
                /\ stint_mean_deltas' = Append(stint_mean_deltas, SeriesMean(deltas))
                /\ stint_std_devs' = Append(stint_std_devs, SeriesStd(deltas))
    /\ stint_queue' = Tail(stint_queue)
    /\ UNCHANGED <<pc, result, laps, sr_groups, sr_trend_models, drivers,
                   stint_downside_devs, driver_analysis>>
    /\ UNCHANGED <<eqState, ddState>>
    /\ UNCHANGED config

\* the row appended to driver_analysis (team and position are copied from
\* session.results and left out)
SharpeRow(driver_number) ==
    ("Driver" :> Abbreviation[driver_number])
    @@ ("Mean Delta vs Benchmark (s)" :> WeightedAverage(stint_mean_deltas, stint_weights))
    @@ ("Lap Time Std Dev (s)" :> WeightedAverage(stint_std_devs, stint_weights))
    @@ ("Driver Sharpe Ratio" :> WeightedAverage(stint_sharpe_ratios, stint_weights))
    @@ ("Driver Sortino Ratio" :> WeightedAverage(stint_sortino_ratios, stint_weights))
    @@ ("Laps Count" :> SumSeq(stint_weights))

\* the weighted aggregation that closes the driver loop body
AggregateStints ==
    /\ pc = "sr_stints"
    /\ stint_queue = <<>>
    /\ driver_analysis' = IF stint_sharpe_ratios = <<>> THEN driver_analysis
                          ELSE Append(driver_analysis, SharpeRow(Head(drivers)))
    /\ drivers' = Tail(drivers)
    /\ pc' = "sr_drivers"
    /\ UNCHANGED <<result, laps, sr_groups, sr_trend_models, stint_queue,
                   stint_sharpe_ratios, stint_sortino_ratios, stint_weights,
                   stint_mean_deltas, stint_std_devs, stint_downside_devs>>
    /\ UNCHANGED <<eqState, ddState>>
    /\ UNCHANGED config

\* rows ordered by a column, largest first (ties keep table order)
SortedDescending(tbl, col) ==
    LET Before(j, i) == tbl[j][col] > tbl[i][col] \/ (tbl[j][col] = tbl[i][col] /\ j < i)
    IN  [k \in Rows(tbl) |->
            tbl[CHOOSE i \in Rows(tbl) :
                    Cardinality({j \in Rows(tbl) : Before(j, i)}) = k - 1]]

ReturnRatio ==
    /\ pc = "sr_drivers"
    /\ drivers = <<>>
    /\ result' = IF driver_analysis = <<>> THEN None
                 ELSE <<"DataFrame",
                        SortedDescending(driver_analysis, "Driver Sharpe Ratio")>>
    /\ pc' = "sr_done"
    /\ UNCHANGED srState
    /\ UNCHANGED <<eqState, ddState>>
    /\ UNCHANGED config

----------------------------------------------------------------------------
(* driver_sortino_ratio.py: the same loop, keeping the downside deviation of
   each stint instead of its Sharpe ratio and standard deviation. *)

\* downside_std_dev: 0 until the downside subset is non-empty, then its std
downside_std_dev(deltas) ==
    IF downside_deltas(deltas) # <<>> THEN SeriesStd(downside_deltas(deltas)) ELSE 0

SortinoNextDriver ==
    /\ pc = "so_drivers"
    /\ drivers # <<>>
    /\ IF DriverLaps(Head(drivers)) = <<>>
       THEN /\ drivers' = Tail(drivers)
            /\ UNCHANGED <<pc, stint_queue>>
       ELSE /\ stint_queue' = Unique(Column(DriverLaps(Head(drivers)), LAMBDA r : r.Stint))
            /\ pc' = "so_stints"
            /\ UNCHANGED drivers
    /\ stint_sortino_ratios' = <<>>
    /\ stint_weights' = <<>>
    /\ stint_mean_deltas' = <<>>
    /\ stint_downside_devs' = <<>>
    /\ UNCHANGED <<result, laps, sr_groups, sr_trend_models, stint_sharpe_ratios,
                   stint_std_devs, driver_analysis>>
    /\ UNCHANGED <<eqState, ddState>>
    /\ UNCHANGED config

\* mutant: the Sortino module keeps stints of two laps
SortinoAnalyzeStint_ShortStints ==
    /\ pc = "so_stints"
    /\ stint_queue # <<>>
    /\ LET deltas == StintDeltas(Head(drivers), Head(stint_queue))
       IN  IF Len(deltas) < 2
           THEN UNCHANGED <<stint_sortino_ratios, stint_weights, stint_mean_deltas,
                            stint_downside_devs>>
           ELSE /\ stint_sortino_ratios' = Append(stint_sortino_ratios, sortino_ratio(deltas))
                /\ stint_weights' = Append(stint_weights, Len(deltas))
                /\ stint_mean_deltas' = Append(stint_mean_deltas, SeriesMean(deltas))
                /\ stint_downside_devs' =
                       Append(stint_downside_devs, downside_std_dev(deltas))
    /\ stint_queue' = Tail(stint_queue)
    /\ UNCHANGED <<pc, result, laps, sr_groups, sr_trend_models, drivers,
                   stint_sharpe_ratios, stint_std_devs, driver_analysis>>
    /\ UNCHANGED <<eqState, ddState>>
    /\ UNCHANGED config

SortinoAnalyzeStint ==
    /\ pc = "so_stints"
    /\ stint_queue # <<>>
    /\ LET deltas == StintDeltas(Head(drivers), Head(stint_queue))
       IN  IF Len(deltas) < 3
           THEN UNCHANGED <<stint_sortino_ratios, stint_weights, stint_mean_deltas,
                            stint_downside_devs>>
           ELSE /\ stint_sortino_ratios' = Append(stint_sortino_ratios, sortino_ratio(deltas))
                /\ stint_weights' = Append(stint_weights, Len(deltas))
                /\ stint_mean_deltas' = Append(stint_mean_deltas, SeriesMean(deltas))
                /\ stint_downside_devs' =
                       Append(stint_downside_devs, downside_std_dev(deltas))
    /\ stint_queue' = Tail(stint_queue)
    /\ UNCHANGED <<pc, result, laps, sr_groups, sr_trend_models, drivers,
                   stint_sharpe_ratios, stint_std_devs, driver_analysis>>
    /\ UNCHANGED <<eqState, ddState>>
    /\ UNCHANGED config

SortinoRow(driver_number) ==
    ("Driver" :> Abbreviation[driver_number])
    @@ ("Mean Delta vs Benchmark (s)" :> WeightedAverage(stint_mean_deltas, stint_weights))
    @@ ("Downside Deviation (s)" :> WeightedAverage(stint_downside_devs, stint_weights))
    @@ ("Driver Sortino Ratio" :> WeightedAverage(stint_sortino_ratios, stint_weights))
    @@ ("Laps Count" :> SumSeq(stint_weights))

SortinoAggregateStints ==
    /\ pc = "so_stints"
    /\ stint_queue = <<>>
    /\ driver_analysis' = IF stint_sortino_ratios = <<>> THEN driver_analysis
                          ELSE Append(driver_analysis, SortinoRow(Head(drivers)))
    /\ drivers' = Tail(drivers)
    /\ pc' = "so_drivers"
    /\ UNCHANGED <<result, laps, sr_groups, sr_trend_models, stint_queue,
                   stint_sharpe_ratios, stint_sortino_ratios, stint_weights,
                   stint_mean_deltas, stint_std_devs, stint_downside_devs>>
    /\ UNCHANGED <<eqState, ddState>>
    /\ UNCHANGED config

SortinoReturn ==
    /\ pc = "so_drivers"
    /\ drivers = <<>>
    /\ result' = IF driver_analysis = <<>> THEN None
                 ELSE <<"DataFrame",
                        SortedDescending(driver_analysis, "Driver Sortino Ratio")>>
    /\ pc' = "so_done"
    /\ UNCHANGED srState
    /\ UNCHANGED <<eqState, ddState>>
    /\ UNCHANGED config

----------------------------------------------------------------------------
(* The two ratio engines on tables of benchmarked laps: the state after
   laps.dropna(subset=['LapTimeDelta']). *)

MaxStintLaps == 3

\* rows of one stint of one driver
DeltaRows(driver_number, stint_number, deltas) ==
    [i \in 1..Len(deltas) |->
        [DriverNumber |-> driver_number, Stint |-> stint_number,
         LapTimeDelta |-> deltas[i]]]

\* VER with a first stint of up to MaxStintLaps laps and a second stint, LEC
\* with one stint, HAM without a benchmarked lap
DeltaTables ==
    LET FirstStints  == UNION {[1..n -> {-2, 0, 1, 3}] : n \in 0..MaxStintLaps}
        SecondStints == {<<>>, <<1, 1>>, <<0, 0, 3>>, <<-2, -2, 1, 1>>, <<-2, 1, 1, 4>>}
        RivalStints  == {<<>>, <<1, 3>>, <<3, 0, 0>>}
    IN  {DeltaRows("1", 1, a) \o DeltaRows("1", 2, b) \o DeltaRows("16", 1, c) :
            a \in FirstStints, b \in SecondStints, c \in RivalStints}

InitRatio ==
    /\ config = ShippedConfig
    /\ laps \in DeltaTables
    /\ drivers = DriverList
    /\ pc \in {"sr_drivers", "so_drivers"}
    /\ result = None
    /\ sr_groups = <<>>
    /\ sr_trend_models = <<>>
    /\ stint_queue = <<>>
    /\ stint_sharpe_ratios = <<>>
    /\ stint_sortino_ratios = <<>>
    /\ stint_weights = <<>>
    /\ stint_mean_deltas = <<>>
    /\ stint_std_devs = <<>>
    /\ stint_downside_devs = <<>>
    /\ driver_analysis = <<>>
    /\ EquityIdle
    /\ DrawdownIdle

NextRatio ==
    \/ NextDriver
    \/ AnalyzeStint
    \/ AggregateStints
    \/ ReturnRatio
    \/ SortinoNextDriver
    \/ SortinoAnalyzeStint
    \/ SortinoAggregateStints
    \/ SortinoReturn

SpecRatio == InitRatio /\ [][NextRatio]_vars

----------------------------------------------------------------------------
(* Both ratio modules run for the same race: main() of driver_sharpe_ratio.py
   and then main() of driver_sortino_ratio.py, which name the same year and
   race.  The Sortino module rebuilds the benchmarked laps with the code of
   the Sharpe module, so its driver loop starts from the same table. *)

\* main() of the Sortino module calls calculate_driver_sortino_ratio after
\* the Sharpe module has returned: a fresh driver_analysis and driver loop
SortinoMain ==
    /\ pc = "sr_done"
    /\ pc' = "so_drivers"
    /\ drivers' = DriverList
    /\ driver_analysis' = <<>>
    /\ stint_queue' = <<>>
    /\ stint_sharpe_ratios' = <<>>
    /\ stint_sortino_ratios' = <<>>
    /\ stint_weights' = <<>>
    /\ stint_mean_deltas' = <<>>
    /\ stint_std_devs' = <<>>
    /\ stint_downside_devs' = <<>>
    /\ UNCHANGED <<result, laps, sr_groups, sr_trend_models>>
    /\ UNCHANGED <<eqState, ddState>>
    /\ UNCHANGED config

InitBothRatios ==
    /\ InitRatio
    /\ pc = "sr_drivers"

NextBothRatios ==
    \/ NextRatio
    \/ SortinoMain

SpecBothRatios == InitBothRatios /\ [][NextBothRatios]_vars

\* the competitors of a returned table with their 'Driver Sortino Ratio'
SortinoColumn(df) ==
    IF df = None THEN {}
    ELSE {<<df[2][i]["Driver"], df[2][i]["Driver Sortino Ratio"]>> : i \in Rows(df[2])}

----------------------------------------------------------------------------
(* Claims about the per-stint ratios *)

InStintLoop == pc \in {"sr_stints", "so_stints"}

\* the deltas of the stints of the current driver that the stint loop has
\* already kept (three laps or more), in loop order
QualifiedDeltas ==
    LET stints == Unique(Column(DriverLaps(Head(drivers)), LAMBDA r : r.Stint))
        done   == SubSeq(stints, 1, Len(stints) - Len(stint_queue))
    IN  SelectSeq([i \in 1..Len(done) |-> StintDeltas(Head(drivers), done[i])],
                  LAMBDA d : Len(d) >= 3)

\* the deltas of a series are not all equal: its standard deviation exceeds 1e-6
Spread(s) == \E i, j \in 1..Len(s) : s[i] # s[j]

\* sd is the sample standard deviation of s in 0.001 s, rounded down
IsStd(sd, s) ==
    /\ sd >= 0
    /\ sd * sd * Len(s) * (Len(s) - 1) <= 100 * VarNumer(s)
    /\ 100 * VarNumer(s) < (sd + 1) * (sd + 1) * Len(s) * (Len(s) - 1)

\* q is num / den rounded to the nearest integer
IsQuotient(q, num, den) ==
    /\ 2 * (q * den - num) <= den
    /\ 2 * (num - q * den) <= den

\* r is -mean(s) / std(dev) in 0.0001
IsNegMeanOverStd(r, s, dev) ==
    \E sd \in 1..3000 :
        /\ IsStd(sd, dev)
        /\ IsQuotient(r, (0 - SumSeq(s)) * 100000, Len(s) * sd)

\* C11: every stint of three laps or more gets the Sharpe-like ratio
\* -mean/stdev of its deltas when the stdev exceeds 1e-6 and exactly 0 otherwise;
\* with a stdev above 1e-6 a negative mean gives a strictly positive ratio and a
\* positive mean a strictly negative one.
C11_SharpeRatio ==
    pc = "sr_stints" =>
        /\ Len(stint_sharpe_ratios) = Len(QualifiedDeltas)
        /\ \A k \in 1..Len(QualifiedDeltas) :
              LET deltas == QualifiedDeltas[k]
                  ratio  == stint_sharpe_ratios[k]
              IN  IF Spread(deltas)
                  THEN /\ IsNegMeanOverStd(ratio, deltas, deltas)
                       /\ SumSeq(deltas) < 0 => ratio > 0
                       /\ SumSeq(deltas) > 0 => ratio < 0
                  ELSE ratio = 0

\* a driver with a stint of equal positive deltas (ratio 0) followed by a stint
\* with a negative mean and spread deltas (positive ratio)
C11_Witness ==
    /\ pc = "sr_stints"
    /\ Len(QualifiedDeltas) = 2
    /\ ~Spread(QualifiedDeltas[1])
    /\ SumSeq(QualifiedDeltas[1]) > 0
    /\ stint_sharpe_ratios[1] = 0
    /\ Spread(QualifiedDeltas[2])
    /\ SumSeq(QualifiedDeltas[2]) < 0
    /\ stint_sharpe_ratios[2] > 0

\* the deltas of a series that are strictly greater than its mean
AboveMean(s) == SelectSeq(s, LAMBDA x : Len(s) * x > SumSeq(s))

\* C12: in both ratio engines the Sortino-like ratio of a stint uses only the
\* deltas strictly greater than the stint's own mean: it is 0 when that subset
\* is empty, -mean/downside_stdev when the subset's standard deviation is
\* defined and exceeds 1e-6, and 0 in every other case, a downside subset of
\* exactly one lap included.
C12_SortinoRatio ==
    InStintLoop =>
        /\ Len(stint_sortino_ratios) = Len(QualifiedDeltas)
        /\ \A k \in 1..Len(QualifiedDeltas) :
              LET deltas == QualifiedDeltas[k]
                  ratio  == stint_sortino_ratios[k]
              IN  IF AboveMean(deltas) = <<>> THEN ratio = 0
                  ELSE IF Len(AboveMean(deltas)) >= 2 /\ Spread(AboveMean(deltas))
                       THEN IsNegMeanOverStd(ratio, deltas, AboveMean(deltas))
                       ELSE ratio = 0

\* the Sortino engine has kept two stints of a driver: one with two or more
\* different deltas above its mean and a non-zero ratio, and one with a non-zero
\* mean and a single delta above it, whose ratio is 0
C12_Witness ==
    /\ pc = "so_stints"
    /\ Len(QualifiedDeltas) = 2
    /\ Len(stint_sortino_ratios) = 2
    /\ Spread(AboveMean(QualifiedDeltas[1]))
    /\ stint_sortino_ratios[1] # 0
    /\ Len(AboveMean(QualifiedDeltas[2])) = 1
    /\ SumSeq(QualifiedDeltas[2]) # 0
    /\ stint_sortino_ratios[2] = 0

RatioReturned == pc \in {"sr_done", "so_done"}

\* the deltas of every stint of a driver with three laps or more
AllQualifiedDeltas(d) ==
    LET stints == Unique(Column(DriverLaps(d), LAMBDA r : r.Stint))
    IN  SelectSeq([i \in 1..Len(stints) |-> StintDeltas(d, stints[i])],
                  LAMBDA x : Len(x) >= 3)

\* the rows of the returned table that belong to a driver
\* the rows of the returned DataFrame
analysis_df == result[2]

ResultRows(d) ==
    IF result = None THEN {}
    ELSE {i \in 1..Len(analysis_df) : analysis_df[i]["Driver"] = Abbreviation[d]}

\* the number of laps in a sequence of stints
LapsIn(q) == SumSeq([k \in 1..Len(q) |-> Len(q[k])])

\* v is the average of f over the stints q, weighted by their lap counts
IsLapWeighted(v, q, f(_)) ==
    IsQuotient(v, SumSeq([k \in 1..Len(q) |-> Len(q[k]) * f(q[k])]), LapsIn(q))

\* C13: a driver none of whose stints has three scored laps or more is absent
\* from the returned table; every driver in it has a 'Laps Count' of at least 3
\* that is the number of laps of its qualifying stints only, and its ratios and
\* mean delta are the lap-count-weighted averages over those stints only.
C13_QualifyingStintsOnly ==
    RatioReturned =>
        \A n \in 1..Len(DriverList) :
            LET d == DriverList[n]
                q == AllQualifiedDeltas(d)
            IN  IF q = <<>> THEN ResultRows(d) = {}
                ELSE /\ Cardinality(ResultRows(d)) = 1
                     /\ \A i \in ResultRows(d) :
                           /\ analysis_df[i]["Laps Count"] = LapsIn(q)
                           /\ analysis_df[i]["Laps Count"] >= 3
                           /\ IsLapWeighted(analysis_df[i]["Driver Sortino Ratio"], q,
                                            sortino_ratio)
                           /\ IsLapWeighted(analysis_df[i]["Mean Delta vs Benchmark (s)"], q,
                                            SeriesMean)
                           /\ pc = "sr_done" =>
                                 IsLapWeighted(analysis_df[i]["Driver Sharpe Ratio"], q,
                                               sharpe_ratio)

\* the Sharpe engine returned a table without LEC, who has benchmarked laps, and
\* with VER, who has two qualifying stints of different lengths and different
\* Sharpe ratios
C13_Witness ==
    /\ pc = "sr_done"
    /\ DriverLaps("16") # <<>>
    /\ ResultRows("16") = {}
    /\ ResultRows("1") # {}
    /\ Len(AllQualifiedDeltas("1")) = 2
    /\ Len(AllQualifiedDeltas("1")[1]) # Len(AllQualifiedDeltas("1")[2])
    /\ sharpe_ratio(AllQualifiedDeltas("1")[1]) # sharpe_ratio(AllQualifiedDeltas("1")[2])

\* calculate_execution_equity is called on the race next
CallExecutionEquity ==
    /\ pc = "sr_done"
    /\ result' = None
    /\ pc' = "flags"
    /\ UNCHANGED <<eqState, ddState, srState>>
    /\ UNCHANGED config

----------------------------------------------------------------------------
(* Both engines run on one race: the ratio engine's benchmark, then the equity
   engine *)

InitBench == RaceLoaded /\ pc = "sr_load"

NextBench ==
    \/ LoadQuickLaps
    \/ FitTrend
    \/ ApplyBenchmark
    \/ NextDriver
    \/ AnalyzeStint
    \/ AggregateStints
    \/ ReturnRatio
    \/ CallExecutionEquity
    \/ IdentifyContextualLaps
    \/ IntervalRecognition
    \/ CalibrateTraffic
    \/ FitBenchmark
    \/ ApplyExpectedPace
    \/ PitAnalysis
    \/ EquityChangeStep
    \/ FailureAttribution
    \/ AggregateDriver
    \/ ReturnEquity

SpecBench == InitBench /\ [][NextBench]_vars

\* rows of a table that carry a (stint, compound) key
KeyRows(tbl, key) == {i \in Rows(tbl) : tbl[i].Stint = key[1] /\ tbl[i].Compound = key[2]}

\* clean laps of a key in the equity engine: green, not a pit lap, in clear air
CleanLaps(key) ==
    {i \in KeyRows(all_laps, key) :
        ~all_laps[i].IsPit /\ ~all_laps[i].IsSC /\ ~all_laps[i].InTraffic}

\* m is the median lap time of the rows idx of tbl (NaN if none has a lap time)
IsMedianLapTime(m, tbl, idx) ==
    LET def == {i \in idx : ~IsNaN(tbl[i].LapTime)}
        n == Cardinality(def)
        Rank(v, k) == /\ Cardinality({i \in def : tbl[i].LapTime < v}) < k
                      /\ Cardinality({i \in def : tbl[i].LapTime <= v}) >= k
    IN  IF n = 0 THEN IsNaN(m)
        ELSE \E i, j \in def :
                /\ Rank(tbl[i].LapTime, (n + 1) \div 2)
                /\ Rank(tbl[j].LapTime, n \div 2 + 1)
                /\ 2 * m = tbl[i].LapTime + tbl[j].LapTime

\* a fitted polynomial of the given degree: degree + 1 coefficients, which are
\* NaN only if a lap time of the sample is missing, and the constant polynomial
\* when every lap of the sample took the same time
IsFit(c, degree, tbl, idx) ==
    /\ Len(c.num) = degree + 1 \/ c = NaNCoeffs
    /\ (c = NaNCoeffs) => \E i \in idx : IsNaN(tbl[i].LapTime)
    /\ (\E v \in {tbl[i].LapTime : i \in idx} :
            ~IsNaN(v) /\ \A i \in idx : tbl[i].LapTime = v)
          => /\ c.den # 0
             /\ \A k \in 1..Len(c.num) : c.num[k] = 0
             /\ \A i \in idx : c.base = tbl[i].LapTime

\* C10: in the equity engine a key with 8 or more clean laps gets a fitted
\* degree-2 polynomial, one with 1 to 7 the constant median lap time of those
\* laps and one with none the constant 90.0; in the ratio engine the cut-off is
\* 5 laps and the fit is of degree 1.  Below the cut-off nothing is fitted.
C10_BenchmarkChoice ==
    /\ \A key \in DOMAIN trend_models :
          LET n == Cardinality(CleanLaps(key))
              model == trend_models[key]
          IN  /\ n >= 8 => /\ model[1] = "quadratic"
                           /\ IsFit(model[2], 2, all_laps, CleanLaps(key))
              /\ (n >= 1 /\ n <= 7) => /\ model[1] = "median"
                                       /\ IsMedianLapTime(model[2], all_laps, CleanLaps(key))
              /\ n = 0 => model = <<"median", 9000>>
    /\ pc = "sr_fit" =>
          \A key \in DOMAIN sr_trend_models :
              LET n == Cardinality(KeyRows(laps, key))
                  model == sr_trend_models[key]
              IN  /\ n >= 5 => /\ model[1] = "regression"
                               /\ IsFit(model[2], 1, laps, KeyRows(laps, key))
                  /\ n < 5 => /\ model[1] = "median"
                              /\ IsMedianLapTime(model[2], laps, KeyRows(laps, key))

\* a race whose ratio benchmark fitted a regression to a key and whose equity
\* benchmark fitted a quadratic to a key of exactly 8 clean laps
C10_Witness ==
    /\ \E key \in DOMAIN trend_models :
          /\ Cardinality(CleanLaps(key)) = 8
          /\ trend_models[key][1] = "quadratic"
          /\ Len(trend_models[key][2].num) = 3
    /\ \E key \in DOMAIN sr_trend_models :
          /\ sr_trend_models[key][1] = "regression"
          /\ Len(sr_trend_models[key][2].num) = 2

\* the (stint, compound) keys of a lap table
KeysOf(tbl) == {<<tbl[i].Stint, tbl[i].Compound>> : i \in Rows(tbl)}

\* laps the ratio engine has scored
RatioScored == {i \in Rows(laps) : Has(laps[i], "BenchmarkTime")}

\* every key of the race's laps (of its quick green-flag laps in the ratio
\* engine) has its model and no key is left to fit
EquityModelsBuilt ==
    /\ groups = <<>>
    /\ DOMAIN trend_models = KeysOf(session.laps)

RatioModelsBuilt ==
    /\ sr_groups = <<>>
    /\ DOMAIN sr_trend_models
          = KeysOf(Filter(pick_quicklaps(session.laps), LAMBDA r : r.TrackStatus = "1"))

\* C23: in each engine no lap has an expected pace or delta before the model of
\* every (stint, compound) key is built, and once a lap is scored no model is
\* created or modified.
C23_FitThenApply ==
    /\ [](EquityScored # {} => EquityModelsBuilt)
    /\ [](RatioScored # {} => RatioModelsBuilt)
    /\ [][ /\ (EquityScored # {} \/ EquityScored' # {}) => trend_models' = trend_models
           /\ (RatioScored # {} \/ RatioScored' # {}) => sr_trend_models' = sr_trend_models
           /\ pc \notin {"sr_load", "sr_fit"} => sr_trend_models' = sr_trend_models
         ]_vars

\* a race of two keys with both engines' laps scored by two models each
C23_Witness ==
    /\ EquityScored # {}
    /\ RatioScored # {}
    /\ Cardinality(DOMAIN trend_models) = 2
    /\ Cardinality(DOMAIN sr_trend_models) = 2
    /\ \E i, j \in EquityScored :
          /\ all_laps[i].Stint # all_laps[j].Stint
          /\ ~IsNaN(all_laps[i].RawDelta) /\ ~IsNaN(all_laps[j].RawDelta)

----------------------------------------------------------------------------
(* resilience_profiler.py: ResilienceProfiler.profile_drivers.  Metrics are in
   0.001 s (per lap), cohort thresholds and scores in 0.0001 s. *)

MDD_BUFFER_SECONDS == 20000

\* KMeans(n_clusters=8)
n_clusters == 8

\* Series.quantile(p / 10) with linear interpolation, in tenths of the unit of s
quantile(s, p) ==
    LET pos == p * (Len(s) - 1)
        lo  == Kth(s, pos \div 10 + 1)
        hi  == Kth(s, IF pos % 10 = 0 THEN pos \div 10 + 1 ELSE pos \div 10 + 2)
    IN  10 * lo + (pos % 10) * (hi - lo)

\* the cohort thresholds of one invocation
Thresholds(df) ==
    LET drawdowns  == [i \in 1..Len(df) |-> df[i]["Max Drawdown (s)"]]
        velocities == [i \in 1..Len(df) |-> df[i]["Reset Velocity (s/Lap)"]]
    IN  [mdd_q70    |-> quantile(drawdowns, 7),
         rv_q70     |-> quantile(velocities, 7),
         mdd_median |-> quantile(drawdowns, 5),
         rv_median  |-> quantile(velocities, 5),
         mdd_q10    |-> quantile(drawdowns, 1)]

\* mutant: the Steady Operator rule is tried before the Entropy King rule
assign_archetype_SteadyFirst(row, t) ==
    LET m == 10 * row["Max Drawdown (s)"]
        v == 10 * row["Reset Velocity (s/Lap)"]
    IN  IF m >= t.mdd_median - MDD_BUFFER_SECONDS THEN "Steady Operator"
        ELSE IF m >= t.mdd_q70 /\ v >= t.rv_q70 /\ row["Restart Delta (s)"] >= 0
        THEN "Entropy King"
        ELSE IF v >= t.rv_median + 500 THEN "Elastic Aggressor"
        ELSE IF m < t.mdd_median - MDD_BUFFER_SECONDS /\ v < t.rv_median
        THEN "Brittle Performer"
        ELSE IF m <= t.mdd_q10 THEN "Outlier / Critical Fail"
        ELSE "Volatile Performer"

\* mutant: the Entropy King rule does not look at the restart delta
assign_archetype_AnyRestart(row, t) ==
    LET m == 10 * row["Max Drawdown (s)"]
        v == 10 * row["Reset Velocity (s/Lap)"]
    IN  IF m >= t.mdd_q70 /\ v >= t.rv_q70 THEN "Entropy King"
        ELSE IF m >= t.mdd_median - MDD_BUFFER_SECONDS THEN "Steady Operator"
        ELSE IF v >= t.rv_median + 500 THEN "Elastic Aggressor"
        ELSE IF m < t.mdd_median - MDD_BUFFER_SECONDS /\ v < t.rv_median
        THEN "Brittle Performer"
        ELSE IF m <= t.mdd_q10 THEN "Outlier / Critical Fail"
        ELSE "Volatile Performer"

assign_archetype(row, t) ==
    LET m == 10 * row["Max Drawdown (s)"]
        v == 10 * row["Reset Velocity (s/Lap)"]
    IN  IF m >= t.mdd_q70 /\ v >= t.rv_q70 /\ row["Restart Delta (s)"] >= 0
        THEN "Entropy King"
        ELSE IF m >= t.mdd_median - MDD_BUFFER_SECONDS THEN "Steady Operator"
        ELSE IF v >= t.rv_median + 500 THEN "Elastic Aggressor"
        ELSE IF m < t.mdd_median - MDD_BUFFER_SECONDS /\ v < t.rv_median
        THEN "Brittle Performer"
        ELSE IF m <= t.mdd_q10 THEN "Outlier / Critical Fail"
        ELSE "Volatile Performer"

\* Series.idxmax(): the first row holding the largest value
idxmax(s) ==
    CHOOSE i \in 1..Len(s) :
        /\ \A j \in 1..Len(s) : s[j] <= s[i]
        /\ \A j \in 1..(i - 1) : s[j] < s[i]

\* mutant: the mean of the two scores without the clamp to [0, 1]
ClampedMean_Unclamped(a, b, c, d) ==
    IF b = 0 \/ d = 0 THEN <<0, 1>>
    ELSE LET sgn == IF (b < 0) = (d < 0) THEN 1 ELSE 0 - 1
         IN  <<sgn * (a * d + c * b), sgn * 2 * b * d>>

\* min(1.0, max(0, (a / b + c / d) / 2)) as a fraction <<numerator, denominator>>;
\* a float division by 0.0 gives an infinity or NaN, and max(0, NaN) is 0
ClampedMean(a, b, c, d) ==
    IF b = 0 \/ d = 0
    THEN IF (b = 0 => a > 0) /\ (d = 0 => c > 0) /\ (a > 0 \/ c > 0)
         THEN <<1, 1>> ELSE <<0, 1>>
    ELSE LET sgn == IF (b < 0) = (d < 0) THEN 1 ELSE 0 - 1
             num == sgn * (a * d + c * b)
             den == sgn * 2 * b * d
         IN  IF num <= 0 THEN <<0, 1>>
             ELSE IF num >= den THEN <<1, 1>>
             ELSE <<num, den>>

calculate_archetype_confidence(row, t) ==
    LET m == 10 * row["Max Drawdown (s)"]
        v == 10 * row["Reset Velocity (s/Lap)"]
        profile == row["Resilience Profile"]
    IN  IF profile = "Entropy King"
        THEN ClampedMean(m - t.mdd_q70, t.mdd_q70 - t.mdd_median + 10,
                         v - t.rv_q70, t.rv_q70 - t.rv_median + 10)
        ELSE IF profile = "Steady Operator"
        THEN ClampedMean(m - t.mdd_median, t.mdd_q70 - t.mdd_median + 10,
                         t.rv_median - v, t.rv_median + 10)
        ELSE IF profile = "Elastic Aggressor"
        THEN ClampedMean(t.mdd_median - m, t.mdd_median + 10,
                         v - t.rv_median, t.rv_median + 10)
        ELSE <<1, 2>>

\* the empty-cohort return and the clustering: KMeans.fit_predict raises a
\* ValueError for fewer samples than clusters, and profile_drivers does not catch it
ClusterDrivers ==
    /\ pc = "rp_call"
    /\ IF aggregated_metrics_df = <<>>
       THEN /\ result' = None
            /\ pc' = "rp_done"
       ELSE IF Len(aggregated_metrics_df) < n_clusters
       THEN /\ result' = <<"ValueError">>
            /\ pc' = "rp_raised"
       ELSE /\ pc' = "rp_assign"
            /\ UNCHANGED result
    /\ UNCHANGED <<eqState, srState, equity_df, driver_queue, d_df, row_idx, mdd, in_dd,
                   trough_lap, trough_equity, current_failure_type, recovery_velocities,
                   recovery_curvatures, recovery_types, metrics_summary, rpState>>
    /\ UNCHANGED config

AssignArchetypes ==
    /\ pc = "rp_assign"
    /\ aggregated_metrics_df' =
          [i \in 1..Len(aggregated_metrics_df) |->
              aggregated_metrics_df[i] @@
              ("Resilience Profile" :>
                  assign_archetype(aggregated_metrics_df[i],
                                   Thresholds(aggregated_metrics_df)))]
    /\ pc' = "rp_posthoc"
    /\ UNCHANGED <<result, eqState, srState, equity_df, driver_queue, d_df, row_idx, mdd,
                   in_dd, trough_lap, trough_equity, current_failure_type,
                   recovery_velocities, recovery_curvatures, recovery_types,
                   metrics_summary, season, race_queue, all_metrics>>
    /\ UNCHANGED config

\* the post-hoc correction: at least one Entropy King
PostHocCorrection ==
    /\ pc = "rp_posthoc"
    /\ LET df == aggregated_metrics_df
           best_idx == idxmax([i \in 1..Len(df) |-> df[i]["Restart Delta (s)"]])
       IN  aggregated_metrics_df' =
             IF \E i \in 1..Len(df) : df[i]["Resilience Profile"] = "Entropy King"
             THEN df
             ELSE [df EXCEPT ![best_idx]["Resilience Profile"] = "Entropy King"]
    /\ pc' = "rp_confidence"
    /\ UNCHANGED <<result, eqState, srState, equity_df, driver_queue, d_df, row_idx, mdd,
                   in_dd, trough_lap, trough_equity, current_failure_type,
                   recovery_velocities, recovery_curvatures, recovery_types,
                   metrics_summary, season, race_queue, all_metrics>>
    /\ UNCHANGED config

ScoreConfidence ==
    /\ pc = "rp_confidence"
    /\ aggregated_metrics_df' =
          [i \in 1..Len(aggregated_metrics_df) |->
              aggregated_metrics_df[i] @@
              ("Archetype Confidence" :>
                  calculate_archetype_confidence(aggregated_metrics_df[i],
                                                 Thresholds(aggregated_metrics_df)))]
    /\ result' = <<"DataFrame", aggregated_metrics_df'>>
    /\ pc' = "rp_done"
    /\ UNCHANGED <<eqState, srState, equity_df, driver_queue, d_df, row_idx, mdd,
                   in_dd, trough_lap, trough_equity, current_failure_type,
                   recovery_velocities, recovery_curvatures, recovery_types,
                   metrics_summary, season, race_queue, all_metrics>>
    /\ UNCHANGED config

----------------------------------------------------------------------------
(* Cohorts of aggregated metrics, of FreeDrivers and of FreeDrivers + 5
   competitors *)

FreeDrivers == 3

\* <<max drawdown, reset velocity, restart delta>> rows: three free competitors
\* of eight kinds, alone or behind one of two fields of five
Cohorts ==
    LET MetricsRow(k, kind) ==
            ("Driver" :> k)
            @@ ("Max Drawdown (s)" :> kind[1])
            @@ ("Reset Velocity (s/Lap)" :> kind[2])
            @@ ("Restart Delta (s)" :> kind[3])
        CohortKinds ==
            { <<-1, 700, 200>>, <<-1, 700, -100>>, <<-1, 0, 0>>, <<-5000, 700, 0>>,
              <<-5000, 0, -100>>, <<-2500, 300, 0>>, <<-5000, 300, 200>>,
              <<-2500, 320, -100>> }
        Fields ==
            { <<>>,
              << <<-1, 300, -100>>, <<-1, 300, -100>>, <<-2500, 300, -100>>,
                 <<-2500, 0, -100>>, <<-5000, 0, -100>> >>,
              << <<-1, 0, 0>>, <<-1, 300, 300>>, <<-1, 300, 0>>,
                 <<-2400, 300, 0>>, <<-2600, 700, 0>> >> }
    IN  {[k \in 1..Len(f \o g) |-> MetricsRow(k, (f \o g)[k])] :
            f \in Fields, g \in [1..FreeDrivers -> CohortKinds]}

InitProfile ==
    /\ config = ShippedConfig
    /\ aggregated_metrics_df \in Cohorts \cup {<<>>}
    /\ pc = "rp_call"
    /\ result = None
    /\ season = <<>>
    /\ race_queue = <<>>
    /\ all_metrics = <<>>
    /\ equity_df = <<>>
    /\ driver_queue = <<>>
    /\ d_df = <<>>
    /\ row_idx = 1
    /\ mdd = NaN
    /\ in_dd = FALSE
    /\ trough_lap = 0
    /\ trough_equity = 0
    /\ current_failure_type = "None"
    /\ recovery_velocities = <<>>
    /\ recovery_curvatures = <<>>
    /\ recovery_types = <<>>
    /\ metrics_summary = <<>>
    /\ EquityIdle
    /\ RatioIdle

NextProfile ==
    \/ ClusterDrivers
    \/ AssignArchetypes
    \/ PostHocCorrection
    \/ ScoreConfidence

SpecProfile == InitProfile /\ [][NextProfile]_vars

----------------------------------------------------------------------------
(* Claims about the archetype classification *)

Cohort == 1..Len(aggregated_metrics_df)

\* profile_drivers has ended, by returning or by raising
ProfileEnded == pc \in {"rp_done", "rp_raised"}

Labelled(i) == "Resilience Profile" \in DOMAIN aggregated_metrics_df[i]

LabelOf(i) == aggregated_metrics_df[i]["Resilience Profile"]

SixLabels ==
    <<"Entropy King", "Steady Operator", "Elastic Aggressor", "Brittle Performer",
      "Outlier / Critical Fail", "Volatile Performer">>

\* the condition of decision rule k for competitor i
RuleHolds(k, i) ==
    LET t  == Thresholds(aggregated_metrics_df)
        m  == 10 * aggregated_metrics_df[i]["Max Drawdown (s)"]
        v  == 10 * aggregated_metrics_df[i]["Reset Velocity (s/Lap)"]
        rd == aggregated_metrics_df[i]["Restart Delta (s)"]
    IN  CASE k = 1 -> m >= t.mdd_q70 /\ v >= t.rv_q70 /\ rd >= 0
          [] k = 2 -> m >= t.mdd_median - 20000
          [] k = 3 -> v >= t.rv_median + 500
          [] k = 4 -> m < t.mdd_median - 20000 /\ v < t.rv_median
          [] k = 5 -> m <= t.mdd_q10
          [] k = 6 -> TRUE

\* the label of the first rule that matches
RuleLabel(i) ==
    SixLabels[CHOOSE k \in 1..6 : RuleHolds(k, i) /\ \A j \in 1..(k - 1) : ~RuleHolds(j, i)]

\* C15: profile_drivers assigns every competitor of a non-empty cohort exactly
\* one of the six labels, the one of the first decision rule that matches, in
\* the order Entropy King, Steady Operator, Elastic Aggressor, Brittle
\* Performer, Outlier / Critical Fail, Volatile Performer.
C15_ArchetypeRules ==
    /\ pc = "rp_posthoc" => \A i \in Cohort : Labelled(i) /\ LabelOf(i) = RuleLabel(i)
    /\ ProfileEnded =>
          \A i \in Cohort :
              Labelled(i) /\ \E k \in 1..6 : LabelOf(i) = SixLabels[k]

\* competitor i is at or above the cohort's 70th percentiles of max drawdown
\* and of reset velocity but has a negative restart delta
TopWithNegativeRestart(i) ==
    LET t == Thresholds(aggregated_metrics_df)
    IN  /\ 10 * aggregated_metrics_df[i]["Max Drawdown (s)"] >= t.mdd_q70
        /\ 10 * aggregated_metrics_df[i]["Reset Velocity (s/Lap)"] >= t.rv_q70
        /\ aggregated_metrics_df[i]["Restart Delta (s)"] < 0

\* C29: when the decision rules have run and the forced reassignment has not,
\* a competitor at or above both 70th percentiles with a negative restart
\* delta is labelled Steady Operator, its max drawdown being at or above the
\* median minus 2.0.
C29_TopButNegativeRestart ==
    pc = "rp_posthoc" =>
        \A i \in Cohort :
            TopWithNegativeRestart(i) =>
                /\ LabelOf(i) = "Steady Operator"
                /\ 10 * aggregated_metrics_df[i]["Max Drawdown (s)"]
                      >= Thresholds(aggregated_metrics_df).mdd_median - 20000

\* such a competitor in a cohort where another one is a natural Entropy King
C29_Witness ==
    /\ pc = "rp_posthoc"
    /\ \E i, j \in Cohort :
          /\ TopWithNegativeRestart(i)
          /\ LabelOf(i) = "Steady Operator"
          /\ LabelOf(j) = "Entropy King"
          /\ aggregated_metrics_df[i]["Max Drawdown (s)"]
                = aggregated_metrics_df[j]["Max Drawdown (s)"]
          /\ aggregated_metrics_df[i]["Reset Velocity (s/Lap)"]
                = aggregated_metrics_df[j]["Reset Velocity (s/Lap)"]

\* the decision rules gave no competitor the label Entropy King
NoNaturalKing == \A i \in Cohort : RuleLabel(i) # "Entropy King"

\* C16: after profile_drivers on a non-empty cohort at least one competitor is
\* labelled Entropy King; when the decision rules produced none, exactly one
\* label is changed, that of the competitor with the highest restart delta, and
\* when they produced one no label is changed.
C16_EntropyKingExists ==
    /\ (ProfileEnded /\ Cohort # {}) =>
          \E i \in Cohort : Labelled(i) /\ LabelOf(i) = "Entropy King"
    /\ (pc \in {"rp_confidence", "rp_done"} /\ Cohort # {}) =>
          IF NoNaturalKing
          THEN \E b \in Cohort :
                  /\ \A j \in Cohort : aggregated_metrics_df[j]["Restart Delta (s)"]
                                           <= aggregated_metrics_df[b]["Restart Delta (s)"]
                  /\ LabelOf(b) = "Entropy King"
                  /\ \A j \in Cohort \ {b} : LabelOf(j) = RuleLabel(j)
          ELSE \A j \in Cohort : LabelOf(j) = RuleLabel(j)

ConfidenceOf(i) == aggregated_metrics_df[i]["Archetype Confidence"]

\* C17: every Archetype Confidence lies in [0, 1], that of a competitor
\* relabelled Entropy King by the post-hoc correction included; Brittle
\* Performer, Outlier / Critical Fail and Volatile Performer get exactly 0.5.
C17_ConfidenceBounded ==
    \A i \in Cohort :
        "Archetype Confidence" \in DOMAIN aggregated_metrics_df[i] =>
            /\ ConfidenceOf(i)[2] > 0
            /\ 0 <= ConfidenceOf(i)[1]
            /\ ConfidenceOf(i)[1] <= ConfidenceOf(i)[2]
            /\ LabelOf(i) \in {"Brittle Performer", "Outlier / Critical Fail",
                                "Volatile Performer"}
                  => 2 * ConfidenceOf(i)[1] = ConfidenceOf(i)[2]

\* a scored cohort whose only Entropy King was relabelled by the post-hoc
\* correction, with a Volatile Performer and with a scored archetype whose
\* confidence lies strictly between 0 and 1
C17_Witness ==
    /\ pc = "rp_done"
    /\ Cohort # {}
    /\ NoNaturalKing
    /\ \E i \in Cohort : LabelOf(i) = "Entropy King"
    /\ \E i \in Cohort : LabelOf(i) = "Volatile Performer" /\ ConfidenceOf(i) = <<1, 2>>
    /\ \E i \in Cohort :
          /\ LabelOf(i) \in {"Steady Operator", "Elastic Aggressor"}
          /\ 0 < ConfidenceOf(i)[1]
          /\ ConfidenceOf(i)[1] < ConfidenceOf(i)[2]

\* competitor i has both the shallowest max drawdown and the highest reset
\* velocity of the cohort
Dominates(i) ==
    \A j \in Cohort \ {i} :
        /\ aggregated_metrics_df[j]["Max Drawdown (s)"]
              < aggregated_metrics_df[i]["Max Drawdown (s)"]
        /\ aggregated_metrics_df[j]["Reset Velocity (s/Lap)"]
              < aggregated_metrics_df[i]["Reset Velocity (s/Lap)"]

\* C18: on a cohort of 3 competitors one of whom has both the shallowest max
\* drawdown and the highest reset velocity, profile_drivers completes and
\* labels that competitor Entropy King by decision rule 1, not by the post-hoc
\* correction.
C18_DominantOfThree ==
    (ProfileEnded /\ Len(aggregated_metrics_df) = 3) =>
        \A i \in Cohort :
            Dominates(i) =>
                /\ pc = "rp_done"
                /\ Labelled(i)
                /\ LabelOf(i) = "Entropy King"
                /\ RuleHolds(1, i)

----------------------------------------------------------------------------
(* run_drawdown_analysis.py: run_seasonal_drawdown.  What a race yields comes
   from the data source and the plotting library: "result" (an equity table and
   its metrics), "none" (calculate_execution_equity returns None) or
   "plot_error" (the metrics are collected, then plot_race_equity raises). *)

\* len(RACE_SCHEDULE)
RaceCount == 24

\* participation >= 10
MinParticipation == 10

RACE_SCHEDULE == [i \in 1..RaceCount |-> i]

\* seasons in which the races a..b of the schedule go wrong in one way
Seasons ==
    {[i \in 1..RaceCount |-> IF a <= i /\ i <= b THEN bad ELSE "result"] :
        a \in 1..RaceCount, b \in 0..RaceCount, bad \in {"none", "plot_error"}}

\* calculate_drawdown_metrics(equity_df) of a race, with the 'Race' column
race_metrics(race) ==
    LET entry == << <<-1, 0, 0>>, <<-1, 300, 300>>, <<-1, 300, 0>>, <<-2400, 300, 0>>,
                   <<-2600, 700, 0>>, <<-5000, 0, -100>>, <<-2500, 320, -100>>,
                   <<-1, 700, 200>> >>
    IN  [k \in 1..Len(entry) |->
            ("Driver" :> k)
            @@ ("Race" :> race)
            @@ ("Max Drawdown (s)" :> entry[k][1] - 1000 * ((race + k) % 2))
            @@ ("Reset Velocity (s/Lap)" :> entry[k][2] + 10 * (race % 3))
            @@ ("Restart Delta (s)" :> entry[k][3] + 20 * ((race + k) % 3) - 20)]

\* one iteration of the race loop: the try block and its except clause
ProcessRace ==
    /\ pc = "run_loop"
    /\ race_queue # <<>>
    /\ all_metrics' = IF season[Head(race_queue)] = "none" THEN all_metrics
                      ELSE Append(all_metrics, race_metrics(Head(race_queue)))
    /\ race_queue' = Tail(race_queue)
    /\ UNCHANGED <<pc, result, eqState, srState, equity_df, driver_queue, d_df, row_idx,
                   mdd, in_dd, trough_lap, trough_equity, current_failure_type,
                   recovery_velocities, recovery_curvatures, recovery_types,
                   metrics_summary, season, aggregated_metrics_df>>
    /\ UNCHANGED config

\* groupby('Driver').agg over the drivers with MinParticipation races or more
seasonal_summary(master_metrics) ==
    LET first == SelectSeq([i \in 1..Len(master_metrics) |-> i],
                           LAMBDA i : \A j \in 1..(i - 1) :
                               master_metrics[j]["Driver"] # master_metrics[i]["Driver"])
        names == [k \in 1..Len(first) |-> master_metrics[first[k]]["Driver"]]
        Of(d, col) ==
            LET rows == SelectSeq(master_metrics, LAMBDA r : r["Driver"] = d)
            IN  [i \in 1..Len(rows) |-> rows[i][col]]
        full_season_drivers ==
            SelectSeq(names, LAMBDA d : Len(Of(d, "Race")) >= MinParticipation)
    IN  [k \in 1..Len(full_season_drivers) |->
            LET d == full_season_drivers[k]
            IN  ("Driver" :> d)
                @@ ("Max Drawdown (s)" :> MinSkipNaN(Of(d, "Max Drawdown (s)")))
                @@ ("Reset Velocity (s/Lap)" :> Mean(Of(d, "Reset Velocity (s/Lap)")))
                @@ ("Restart Delta (s)" :> Mean(Of(d, "Restart Delta (s)")))]

\* after the loop: return without data, or aggregate the season and call
\* profiler.profile_drivers(seasonal_summary)
AggregateSeason ==
    /\ pc = "run_loop"
    /\ race_queue = <<>>
    /\ IF all_metrics = <<>>
       THEN /\ pc' = "run_done"
            /\ UNCHANGED aggregated_metrics_df
       ELSE /\ aggregated_metrics_df' = seasonal_summary(concat(all_metrics))
            /\ pc' = "rp_call"
    /\ UNCHANGED <<result, eqState, srState, equity_df, driver_queue, d_df, row_idx,
                   mdd, in_dd, trough_lap, trough_equity, current_failure_type,
                   recovery_velocities, recovery_curvatures, recovery_types,
                   metrics_summary, season, race_queue, all_metrics>>
    /\ UNCHANGED config

\* print(profiles[['Driver', 'Resilience Profile']]) and the plots: an exception
\* of profile_drivers is not caught, and None is not subscriptable
PrintProfiles ==
    /\ pc \in {"rp_done", "rp_raised"}
    /\ season # <<>>
    /\ IF pc = "rp_raised"
       THEN /\ pc' = "run_crashed"
            /\ UNCHANGED result
       ELSE IF result = None
       THEN /\ pc' = "run_crashed"
            /\ result' = <<"TypeError">>
       ELSE /\ pc' = "run_done"
            /\ UNCHANGED result
    /\ UNCHANGED <<eqState, srState, equity_df, driver_queue, d_df, row_idx, mdd, in_dd,
                   trough_lap, trough_equity, current_failure_type, recovery_velocities,
                   recovery_curvatures, recovery_types, metrics_summary, rpState>>
    /\ UNCHANGED config

InitSeason ==
    /\ config = ShippedConfig
    /\ season \in Seasons
    /\ race_queue = RACE_SCHEDULE
    /\ all_metrics = <<>>
    /\ aggregated_metrics_df = <<>>
    /\ pc = "run_loop"
    /\ result = None
    /\ equity_df = <<>>
    /\ driver_queue = <<>>
    /\ d_df = <<>>
    /\ row_idx = 1
    /\ mdd = NaN
    /\ in_dd = FALSE
    /\ trough_lap = 0
    /\ trough_equity = 0
    /\ current_failure_type = "None"
    /\ recovery_velocities = <<>>
    /\ recovery_curvatures = <<>>
    /\ recovery_types = <<>>
    /\ metrics_summary = <<>>
    /\ EquityIdle
    /\ RatioIdle

NextSeason ==
    \/ ProcessRace
    \/ AggregateSeason
    \/ ClusterDrivers
    \/ AssignArchetypes
    \/ PostHocCorrection
    \/ ScoreConfidence
    \/ PrintProfiles

SpecSeason == InitSeason /\ [][NextSeason]_vars

\* the races of the schedule already processed
Processed == 1..(RaceCount - Len(race_queue))

\* C14: in the season batch a race that fails or yields no result is skipped:
\* every later race is still processed, the collected metrics hold exactly the
\* races that produced a result, and the run never ends in an unhandled error
\* because some races failed.
C14_BatchContinues ==
    season # <<>> =>
        /\ {all_metrics[n][1]["Race"] : n \in 1..Len(all_metrics)}
              = {r \in Processed : season[r] # "none"}
        /\ pc # "run_loop" => race_queue = <<>>
        /\ pc # "run_crashed"

====
